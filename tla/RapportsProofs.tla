---------------------------- MODULE RapportsProofs ----------------------------
(* Proofs about a written report (Rapports), for any organisation and any     *)
(* number of texts, requests and failures.                                    *)
EXTENDS Rapports, FiniteSetTheorems, TLAPS

(* What is left of a request of each operation, from each of its statements *)
(* on.                                                                      *)
Restes == [
    creerGENERAL |-> {<<"creer">>},
    creerWEEKLY  |-> {<<"creer", "creerJours">>, <<"creerJours">>},
    ouvrir       |-> {<<"charger">>},
    enregistrer  |-> {
        <<"verifier", "ecrire", "ecrireJours", "lireMentions", "retirer", "ajouter",
          "annoncer", "relire", "charger">>,
        <<"ecrire", "ecrireJours", "lireMentions", "retirer", "ajouter", "annoncer",
          "relire", "charger">>,
        <<"ecrireJours", "lireMentions", "retirer", "ajouter", "annoncer", "relire",
          "charger">>,
        <<"lireMentions", "retirer", "ajouter", "annoncer", "relire", "charger">>,
        <<"retirer", "ajouter", "annoncer", "relire", "charger">>,
        <<"ajouter", "annoncer", "relire", "charger">>,
        <<"annoncer", "relire", "charger">>,
        <<"relire", "charger">>,
        <<"charger">>},
    joindre      |-> {<<"verifier", "charger">>, <<"charger">>},
    archiver     |-> {<<"verifier", "charger">>, <<"charger">>},
    visibilite   |-> {<<"basculer", "charger">>, <<"charger">>},
    supprimer    |-> {<<"verifier", "supprimer">>, <<"supprimer">>},
    tardive      |-> {<<"ecrireJours">>, <<"annoncer">>}]
Reste == UNION {Restes[op] : op \in Executee}

(* The statements that may follow one that is not the last of its request. *)
Suite == [verifier |-> {"ecrire", "charger", "supprimer"}, ecrire |-> {"ecrireJours"},
          ecrireJours |-> {"lireMentions"}, lireMentions |-> {"retirer"},
          retirer |-> {"ajouter"}, ajouter |-> {"annoncer"}, annoncer |-> {"relire"},
          relire |-> {"charger"}, basculer |-> {"charger"}, creer |-> {"creerJours"}]

(* Only a save has these, and none is its last; the two that may come late. *)
DeSauvegarde == {"ecrire"} \cup EcritDesJours
Tard == {"ecrireJours", "annoncer"}

(* A sequence of one statement; a sequence that begins with one and goes on. *)
Seul(s, i) == s \in Seq(Instruction) /\ s # << >> /\ Len(s) = 1 /\ Head(s) = i
Devant(s, i, t) ==
    s \in Seq(Instruction) /\ s # << >> /\ Len(s) # 1 /\ Head(s) = i /\ Tail(s) = t

(* What is left of a save, one statement after the other.                  *)
LEMMA LaSauvegarde ==
    /\ Devant(<<"verifier", "ecrire", "ecrireJours", "lireMentions", "retirer", "ajouter",
                "annoncer", "relire", "charger">>, "verifier",
              <<"ecrire", "ecrireJours", "lireMentions", "retirer", "ajouter", "annoncer",
                "relire", "charger">>)
    /\ Devant(<<"ecrire", "ecrireJours", "lireMentions", "retirer", "ajouter", "annoncer",
                "relire", "charger">>, "ecrire",
              <<"ecrireJours", "lireMentions", "retirer", "ajouter", "annoncer", "relire",
                "charger">>)
    /\ Devant(<<"ecrireJours", "lireMentions", "retirer", "ajouter", "annoncer", "relire",
                "charger">>, "ecrireJours",
              <<"lireMentions", "retirer", "ajouter", "annoncer", "relire", "charger">>)
    /\ Devant(<<"lireMentions", "retirer", "ajouter", "annoncer", "relire", "charger">>,
              "lireMentions", <<"retirer", "ajouter", "annoncer", "relire", "charger">>)
    /\ Devant(<<"retirer", "ajouter", "annoncer", "relire", "charger">>, "retirer",
              <<"ajouter", "annoncer", "relire", "charger">>)
    /\ Devant(<<"ajouter", "annoncer", "relire", "charger">>, "ajouter",
              <<"annoncer", "relire", "charger">>)
    /\ Devant(<<"annoncer", "relire", "charger">>, "annoncer", <<"relire", "charger">>)
    /\ Devant(<<"relire", "charger">>, "relire", <<"charger">>)
    /\ Seul(<<"charger">>, "charger")
BY DEF Devant, Seul, Instruction

(* The same of the other programs.                                         *)
LEMMA LesAutres ==
    /\ Devant(<<"creer", "creerJours">>, "creer", <<"creerJours">>)
    /\ Devant(<<"verifier", "charger">>, "verifier", <<"charger">>)
    /\ Devant(<<"basculer", "charger">>, "basculer", <<"charger">>)
    /\ Devant(<<"verifier", "supprimer">>, "verifier", <<"supprimer">>)
    /\ Seul(<<"creer">>, "creer") /\ Seul(<<"creerJours">>, "creerJours")
    /\ Seul(<<"charger">>, "charger") /\ Seul(<<"supprimer">>, "supprimer")
    /\ Seul(<<"ecrireJours">>, "ecrireJours") /\ Seul(<<"annoncer">>, "annoncer")
BY DEF Devant, Seul, Instruction

(* One program, statement by statement.                                    *)
Conforme(op, s) ==
    /\ s # << >> /\ s \in Seq(Instruction)
    /\ Len(s) # 1 => /\ Tail(s) \in Restes[op]
                     /\ Head(s) \in DOMAIN Suite /\ Head(Tail(s)) \in Suite[Head(s)]
    /\ Head(s) \in DeSauvegarde => \/ op = "enregistrer" /\ Len(s) # 1
                                   \/ op = "tardive"
    /\ op = "tardive" => Head(s) \in Tard /\ Len(s) = 1
    /\ Head(s) = "charger" => Len(s) = 1
    /\ Head(s) = "creer" => op \in {"creerGENERAL", "creerWEEKLY"}
    /\ op = "enregistrer" => /\ Head(s) \in {"verifier", "charger"} \cup DeSauvegarde
                             /\ Head(s) = "verifier" => Head(Tail(s)) = "ecrire"

LEMMA LesRestes ==
    /\ Operation = {"creerGENERAL", "creerWEEKLY", "ouvrir", "enregistrer", "joindre",
                    "archiver", "visibilite", "supprimer"}
    /\ \A op \in Operation : Programme[op] \in Restes[op]
    /\ \A op \in Operation : Head(Programme[op]) \notin DeSauvegarde
    /\ Head(Programme["enregistrer"]) # "charger"
    /\ \A op \in Executee : \A s \in Restes[op] : Conforme(op, s)
    /\ "tardive" \notin Operation
<1>1. Operation = {"creerGENERAL", "creerWEEKLY", "ouvrir", "enregistrer", "joindre",
                   "archiver", "visibilite", "supprimer"}
  BY DEF Operation, Programme
<1>2. ASSUME NEW op \in Operation
      PROVE  Programme[op] \in Restes[op] /\ Head(Programme[op]) \notin DeSauvegarde
  BY <1>1 DEF Programme, Enregistrement, Restes, DeSauvegarde, EcritDesJours
<1>3. Head(Programme["enregistrer"]) # "charger"
  BY DEF Programme, Enregistrement
<1>s. /\ DOMAIN Suite = {"verifier", "ecrire", "ecrireJours", "lireMentions", "retirer",
                         "ajouter", "annoncer", "relire", "basculer", "creer"}
      /\ Suite["verifier"] = {"ecrire", "charger", "supprimer"}
      /\ Suite["ecrire"] = {"ecrireJours"} /\ Suite["ecrireJours"] = {"lireMentions"}
      /\ Suite["lireMentions"] = {"retirer"} /\ Suite["retirer"] = {"ajouter"}
      /\ Suite["ajouter"] = {"annoncer"} /\ Suite["annoncer"] = {"relire"}
      /\ Suite["relire"] = {"charger"} /\ Suite["basculer"] = {"charger"}
      /\ Suite["creer"] = {"creerJours"}
  BY DEF Suite
<1>4. ASSUME NEW op \in Executee, NEW s \in Restes[op] PROVE Conforme(op, s)
  <2>1. CASE op = "creerGENERAL"
    <3>0. Restes[op] = {<<"creer">>}
      BY <2>1 DEF Restes
    <3>1. CASE s = <<"creer">>
      BY <2>1, <3>0, <3>1, <1>s, LesAutres DEF Conforme, DeSauvegarde, EcritDesJours, Seul
    <3> QED BY <3>0, <3>1
  <2>2. CASE op = "creerWEEKLY"
    <3>0. Restes[op] = {<<"creer", "creerJours">>,
                         <<"creerJours">>}
      BY <2>2 DEF Restes
    <3>1. CASE s = <<"creer", "creerJours">>
      BY <2>2, <3>0, <3>1, <1>s, LesAutres DEF Conforme, DeSauvegarde, EcritDesJours, Devant
    <3>2. CASE s = <<"creerJours">>
      BY <2>2, <3>0, <3>2, <1>s, LesAutres DEF Conforme, DeSauvegarde, EcritDesJours, Seul
    <3> QED BY <3>0, <3>1, <3>2
  <2>3. CASE op = "ouvrir"
    <3>0. Restes[op] = {<<"charger">>}
      BY <2>3 DEF Restes
    <3>1. CASE s = <<"charger">>
      BY <2>3, <3>0, <3>1, <1>s, LesAutres DEF Conforme, DeSauvegarde, EcritDesJours, Seul
    <3> QED BY <3>0, <3>1
  <2>4. CASE op = "joindre"
    <3>0. Restes[op] = {<<"verifier", "charger">>,
                         <<"charger">>}
      BY <2>4 DEF Restes
    <3>1. CASE s = <<"verifier", "charger">>
      BY <2>4, <3>0, <3>1, <1>s, LesAutres DEF Conforme, DeSauvegarde, EcritDesJours, Devant
    <3>2. CASE s = <<"charger">>
      BY <2>4, <3>0, <3>2, <1>s, LesAutres DEF Conforme, DeSauvegarde, EcritDesJours, Seul
    <3> QED BY <3>0, <3>1, <3>2
  <2>5. CASE op = "archiver"
    <3>0. Restes[op] = {<<"verifier", "charger">>,
                         <<"charger">>}
      BY <2>5 DEF Restes
    <3>1. CASE s = <<"verifier", "charger">>
      BY <2>5, <3>0, <3>1, <1>s, LesAutres DEF Conforme, DeSauvegarde, EcritDesJours, Devant
    <3>2. CASE s = <<"charger">>
      BY <2>5, <3>0, <3>2, <1>s, LesAutres DEF Conforme, DeSauvegarde, EcritDesJours, Seul
    <3> QED BY <3>0, <3>1, <3>2
  <2>6. CASE op = "visibilite"
    <3>0. Restes[op] = {<<"basculer", "charger">>,
                         <<"charger">>}
      BY <2>6 DEF Restes
    <3>1. CASE s = <<"basculer", "charger">>
      BY <2>6, <3>0, <3>1, <1>s, LesAutres DEF Conforme, DeSauvegarde, EcritDesJours, Devant
    <3>2. CASE s = <<"charger">>
      BY <2>6, <3>0, <3>2, <1>s, LesAutres DEF Conforme, DeSauvegarde, EcritDesJours, Seul
    <3> QED BY <3>0, <3>1, <3>2
  <2>7. CASE op = "supprimer"
    <3>0. Restes[op] = {<<"verifier", "supprimer">>,
                         <<"supprimer">>}
      BY <2>7 DEF Restes
    <3>1. CASE s = <<"verifier", "supprimer">>
      BY <2>7, <3>0, <3>1, <1>s, LesAutres DEF Conforme, DeSauvegarde, EcritDesJours, Devant
    <3>2. CASE s = <<"supprimer">>
      BY <2>7, <3>0, <3>2, <1>s, LesAutres DEF Conforme, DeSauvegarde, EcritDesJours, Seul
    <3> QED BY <3>0, <3>1, <3>2
  <2>8. CASE op = "enregistrer"
    <3>0. Restes[op] = {<<"verifier", "ecrire", "ecrireJours", "lireMentions", "retirer",
                           "ajouter", "annoncer", "relire", "charger">>,
                         <<"ecrire", "ecrireJours", "lireMentions", "retirer", "ajouter",
                           "annoncer", "relire", "charger">>,
                         <<"ecrireJours", "lireMentions", "retirer", "ajouter",
                           "annoncer", "relire", "charger">>,
                         <<"lireMentions", "retirer", "ajouter", "annoncer", "relire",
                           "charger">>,
                         <<"retirer", "ajouter", "annoncer", "relire", "charger">>,
                         <<"ajouter", "annoncer", "relire", "charger">>,
                         <<"annoncer", "relire", "charger">>,
                         <<"relire", "charger">>,
                         <<"charger">>}
      BY <2>8 DEF Restes
    <3>1. CASE s = <<"verifier", "ecrire", "ecrireJours", "lireMentions", "retirer",
                       "ajouter", "annoncer", "relire", "charger">>
      BY <2>8, <3>0, <3>1, <1>s, LaSauvegarde DEF Conforme, DeSauvegarde, EcritDesJours, Devant
    <3>2. CASE s = <<"ecrire", "ecrireJours", "lireMentions", "retirer", "ajouter",
                       "annoncer", "relire", "charger">>
      BY <2>8, <3>0, <3>2, <1>s, LaSauvegarde DEF Conforme, DeSauvegarde, EcritDesJours, Devant
    <3>3. CASE s = <<"ecrireJours", "lireMentions", "retirer", "ajouter", "annoncer",
                       "relire", "charger">>
      BY <2>8, <3>0, <3>3, <1>s, LaSauvegarde DEF Conforme, DeSauvegarde, EcritDesJours, Devant
    <3>4. CASE s = <<"lireMentions", "retirer", "ajouter", "annoncer", "relire",
                       "charger">>
      BY <2>8, <3>0, <3>4, <1>s, LaSauvegarde DEF Conforme, DeSauvegarde, EcritDesJours, Devant
    <3>5. CASE s = <<"retirer", "ajouter", "annoncer", "relire", "charger">>
      BY <2>8, <3>0, <3>5, <1>s, LaSauvegarde DEF Conforme, DeSauvegarde, EcritDesJours, Devant
    <3>6. CASE s = <<"ajouter", "annoncer", "relire", "charger">>
      BY <2>8, <3>0, <3>6, <1>s, LaSauvegarde DEF Conforme, DeSauvegarde, EcritDesJours, Devant
    <3>7. CASE s = <<"annoncer", "relire", "charger">>
      BY <2>8, <3>0, <3>7, <1>s, LaSauvegarde DEF Conforme, DeSauvegarde, EcritDesJours, Devant
    <3>8. CASE s = <<"relire", "charger">>
      BY <2>8, <3>0, <3>8, <1>s, LaSauvegarde DEF Conforme, DeSauvegarde, EcritDesJours, Devant
    <3>9. CASE s = <<"charger">>
      BY <2>8, <3>0, <3>9, <1>s, LaSauvegarde DEF Conforme, DeSauvegarde, EcritDesJours, Seul
    <3> QED BY <3>0, <3>1, <3>2, <3>3, <3>4, <3>5, <3>6, <3>7, <3>8, <3>9
  <2>9. CASE op = "tardive"
    <3>0. Restes[op] = {<<"ecrireJours">>,
                         <<"annoncer">>}
      BY <2>9 DEF Restes
    <3>1. CASE s = <<"ecrireJours">>
      BY <2>9, <3>0, <3>1, <1>s, LesAutres DEF Conforme, DeSauvegarde, EcritDesJours, Tard, Seul
    <3>2. CASE s = <<"annoncer">>
      BY <2>9, <3>0, <3>2, <1>s, LesAutres DEF Conforme, DeSauvegarde, EcritDesJours, Tard, Seul
    <3> QED BY <3>0, <3>1, <3>2
  <2> QED BY <1>1, <2>1, <2>2, <2>3, <2>4, <2>5, <2>6, <2>7, <2>8, <2>9 DEF Executee
<1> QED BY <1>1, <1>2, <1>3, <1>4

-----------------------------------------------------------------------------
(* Types.                                                                   *)

UnRapport == [type : TypeRapport, prive : BOOLEAN]
UnePage == [vue : TypeRapport \cup {Nul}, edite : BOOLEAN, brouillon : [Partie -> Texte],
            cites : SUBSET User]
Demandee == [op : Executee \cup {"aucune"}, par : User \cup {Nul}, attend : BOOLEAN,
             reste : Reste \cup {<< >>}, brouillon : [Partie -> Texte], cites : SUBSET User,
             dela : SUBSET User, nouveaux : SUBSET User]
UnEnvoi == [envoi : [Partie -> Texte], melee : BOOLEAN, par : Place \cup {Nul}]

(* The types of every variable, and where a request stands in its program. *)
Types ==
    /\ rapport \in UnRapport \cup {Nul} /\ jours \in BOOLEAN
    /\ ecrit \in [Partie -> Texte] /\ mentions \subseteq User
    /\ annonces \in [User -> Nat] /\ ajouts \in [User -> Nat]
    /\ pages \in [User -> UnePage]
    /\ requetes \in [Place -> Demandee]
    /\ \A a \in Place : Occupee(a) =>
          requetes[a].reste \in Restes[requetes[a].op] /\ requetes[a].par \in User
    /\ textes \in Texte /\ demandes \in Nat /\ incidents \in Nat
    /\ enCours \in UnEnvoi

(* A request in hand is at a statement of its program.                     *)
LEMMA EnMain ==
    ASSUME Types, NEW a \in Place, Occupee(a)
    PROVE  /\ requetes[a] \in Demandee /\ requetes[a].op \in Executee
           /\ requetes[a].reste \in Restes[requetes[a].op] /\ requetes[a].reste \in Reste
           /\ Auteur(a) \in User
           /\ Conforme(requetes[a].op, requetes[a].reste)
<1>1. requetes[a] \in Demandee /\ requetes[a].op \in Executee
      /\ requetes[a].reste \in Restes[requetes[a].op] /\ Auteur(a) \in User
  BY DEF Types, Occupee, Demandee, Auteur
<1>2. requetes[a].reste \in Reste /\ Conforme(requetes[a].op, requetes[a].reste)
  BY <1>1, LesRestes DEF Reste
<1> QED BY <1>1, <1>2

(* No request in hand. *)
LEMMA LibreEstType == Libre \in Demandee /\ Libre.op = "aucune" /\ "aucune" \notin Executee
<1>1. Fermee.brouillon \in [Partie -> Texte]
  BY RapportsAssumption DEF Fermee, Partie, Texte
<1>2. "aucune" \notin Executee
  BY LesRestes DEF Executee
<1> QED BY <1>1, <1>2 DEF Libre, Demandee

(* A request goes on to its next statement; a request begins; its page is   *)
(* answered and its statement comes late.                                  *)
Avance(a, q) ==
    /\ Occupee(a) /\ q \in Demandee
    /\ q.op = requetes[a].op /\ q.reste = Tail(requetes[a].reste)
    /\ q.reste \in Restes[q.op] /\ q.brouillon = requetes[a].brouillon
    /\ q.par = requetes[a].par
    /\ Head(requetes[a].reste) \in DOMAIN Suite
    /\ Head(q.reste) \in Suite[Head(requetes[a].reste)]
Debute(a, q) ==
    /\ ~Occupee(a) /\ q \in Demandee /\ q.op \in Operation /\ q.reste = Programme[q.op]
    /\ q.par \in User
Retarde(a, q) ==
    /\ Occupee(a) /\ q \in Demandee /\ q.op = "tardive" /\ requetes[a].op = "enregistrer"
    /\ q.reste \in Restes["tardive"] /\ Head(q.reste) = Head(requetes[a].reste)
    /\ q.par = requetes[a].par /\ q.brouillon = requetes[a].brouillon
    /\ q.nouveaux \subseteq requetes[a].nouveaux
Devient(a, q) == requetes' = [requetes EXCEPT ![a] = q]

(* After a statement, a request goes on or, if it was the last, is over.    *)
LEMMA Passage ==
    ASSUME Types, NEW a \in Place, NEW i, Suivante(a, i)
    PROVE  /\ Passee(a) = Libre \/ (Avance(a, Passee(a)) /\ Passee(a).nouveaux = requetes[a].nouveaux)
           /\ Passee(a) = Libre => i \notin DeSauvegarde \/ requetes[a].op = "tardive"
<1> DEFINE q == requetes[a]
           r == Tail(q.reste)
           s == [q EXCEPT !.reste = r]
<1>1. /\ q \in Demandee /\ q.op \in Executee /\ Conforme(q.op, q.reste)
      /\ Head(q.reste) = i /\ Occupee(a) /\ q.op # "aucune"
  BY EnMain, LibreEstType DEF Suivante
<1>2. CASE Len(q.reste) = 1
  BY <1>1, <1>2 DEF Passee, Conforme
<1>3. CASE Len(q.reste) # 1
  <2>1. r \in Restes[q.op] /\ i \in DOMAIN Suite /\ Head(r) \in Suite[i] /\ r \in Reste
    BY <1>1, <1>3 DEF Conforme, Reste, Executee
  <2> HIDE DEF r
  <2>2. s \in Demandee /\ s.op = q.op /\ s.reste = r /\ s.brouillon = q.brouillon
        /\ s.nouveaux = q.nouveaux /\ s.par = q.par
    <3> HIDE DEF q
    <3> QED BY <1>1, <2>1 DEF Demandee
  <2>3. Passee(a) = s
    BY <1>3 DEF Passee, r
  <2>4. Avance(a, s) /\ s # Libre
    <3> HIDE DEF s
    <3> QED BY <1>1, <2>1, <2>2, LibreEstType DEF Avance, r
  <2> HIDE DEF s, q
  <2> QED BY <2>2, <2>3, <2>4 DEF q
<1> QED BY <1>2, <1>3

(* What the buttons of the page ask for. *)
LEMMA Recevable ==
    ASSUME Types, NEW u \in User, NEW a \in Place, ~Occupee(a)
    PROVE  /\ \A op \in Operation :
                 Demander(u, a, op) => \E q : Debute(a, q) /\ Devient(a, q) /\ q.op = op
           /\ Annuler(u, a) => \E q : Debute(a, q) /\ Devient(a, q) /\ q.op = "ouvrir"
<1>1. pages[u] \in UnePage /\ Libre \in Demandee
  BY LibreEstType DEF Types
<1>2. ASSUME NEW op \in Operation, Demander(u, a, op)
      PROVE  \E q : Debute(a, q) /\ Devient(a, q) /\ q.op = op
  <2> DEFINE b == pages[u].brouillon
             c == pages[u].cites
             s == Programme[op]
             q == [Libre EXCEPT !.op = op, !.par = u, !.attend = TRUE, !.reste = s,
                                !.brouillon = b, !.cites = c]
  <2>1. b \in [Partie -> Texte] /\ c \in SUBSET User /\ s \in Reste /\ Devient(a, q)
    BY <1>1, <1>2, LesRestes DEF UnePage, Demander, Reste, Devient, Executee
  <2> HIDE DEF b, c, s
  <2>2. q \in Demandee /\ q.op = op /\ q.reste = s /\ q.par = u
    BY <1>1, <2>1 DEF Demandee, Executee
  <2> HIDE DEF q
  <2>3. Debute(a, q)
    BY <2>2 DEF Debute, s
  <2> QED BY <2>1, <2>2, <2>3
<1>3. ASSUME Annuler(u, a) PROVE \E q : Debute(a, q) /\ Devient(a, q) /\ q.op = "ouvrir"
  <2> DEFINE s == <<"charger">>
             q == [Libre EXCEPT !.op = "ouvrir", !.par = u, !.attend = TRUE, !.reste = s]
  <2>1. "ouvrir" \in Operation /\ s = Programme["ouvrir"] /\ Devient(a, q)
    BY <1>3, LesRestes DEF Programme, Annuler, Devient
  <2>2. s \in Reste
    BY <2>1, LesRestes DEF Reste, Executee
  <2> HIDE DEF s
  <2>3. q \in Demandee /\ q.op = "ouvrir" /\ q.reste = s /\ q.par = u
    BY <1>1, <2>1, <2>2 DEF Demandee, Executee
  <2> HIDE DEF q
  <2> QED BY <2>1, <2>3 DEF Debute
<1> QED BY <1>2, <1>3

(* What a person does with the page leaves the requests, begins one, or, on  *)
(* leaving, lets nobody wait for his any more.                              *)
Delaissee(a) ==
    /\ requetes'[a].op = requetes[a].op
    /\ requetes'[a].reste = requetes[a].reste /\ requetes'[a].par = requetes[a].par
    /\ requetes'[a].brouillon = requetes[a].brouillon
    /\ requetes'[a].nouveaux = requetes[a].nouveaux
Delaissees == requetes' \in [Place -> Demandee] /\ \A a \in Place : Delaissee(a)
LEMMA DeLaPage ==
    ASSUME Types, NEW u \in User, Edition(u)
    PROVE  \/ requetes' = requetes
           \/ Delaissees /\ Quitter(u)
           \/ \E a \in Place : \E q :
                  /\ Debute(a, q) /\ Devient(a, q)
                  /\ \/ q.op \notin {"creerGENERAL", "creerWEEKLY"}
                     \/ \E op \in {"creerGENERAL", "creerWEEKLY"} : Demander(u, a, op)
<1>1. ASSUME Quitter(u) PROVE Delaissees
  <2>1. requetes' = [a \in Place |-> [requetes[a] EXCEPT
                        !.attend = @ /\ requetes[a].par # u]]
    BY <1>1 DEF Quitter
  <2>2. ASSUME NEW a \in Place PROVE Delaissee(a) /\ requetes'[a] \in Demandee
    <3>1. requetes[a] \in Demandee
      BY DEF Types
    <3>2. \A e \in BOOLEAN : LET q == [requetes[a] EXCEPT !.attend = e]
                             IN  /\ q \in Demandee /\ q.op = requetes[a].op
                                 /\ q.reste = requetes[a].reste /\ q.par = requetes[a].par
                                 /\ q.brouillon = requetes[a].brouillon
                                 /\ q.nouveaux = requetes[a].nouveaux
      BY <3>1 DEF Demandee
    <3>3. requetes[a].attend \in BOOLEAN
      BY <3>1 DEF Demandee
    <3>4. \E e \in BOOLEAN : requetes'[a] = [requetes[a] EXCEPT !.attend = e]
      BY <2>1, <3>3
    <3> QED BY <3>2, <3>4 DEF Delaissee
  <2> QED BY <2>1, <2>2 DEF Delaissees
<1>2. ASSUME NEW a \in Place, NEW op \in Operation, Demander(u, a, op)
      PROVE  \E q : /\ Debute(a, q) /\ Devient(a, q)
                    /\ \/ q.op \notin {"creerGENERAL", "creerWEEKLY"}
                       \/ \E o \in {"creerGENERAL", "creerWEEKLY"} : Demander(u, a, o)
  <2>1. PICK q : Debute(a, q) /\ Devient(a, q) /\ q.op = op
    <3>1. ~Occupee(a)
      BY <1>2 DEF Demander
    <3> QED BY <1>2, <3>1, Recevable
  <2>2. CASE op \in {"creerGENERAL", "creerWEEKLY"}
    BY <1>2, <2>1, <2>2
  <2>3. CASE op \notin {"creerGENERAL", "creerWEEKLY"}
    BY <2>1, <2>3
  <2> QED BY <2>2, <2>3
<1>3. ASSUME NEW a \in Place, Annuler(u, a)
      PROVE  \E q : /\ Debute(a, q) /\ Devient(a, q)
                    /\ q.op \notin {"creerGENERAL", "creerWEEKLY"}
  BY <1>3, Recevable DEF Annuler
<1> QED BY <1>1, <1>2, <1>3 DEF Edition, Editer, Taper, Citer

(* The reading of the mentions goes on, with what it has read.              *)
LEMMA Lecture ==
    ASSUME Types, NEW a \in Place, LireMentions(a)
    PROVE  \E q : Avance(a, q) /\ Devient(a, q)
<1> DEFINE r == Passee(a)
           n == Nouveaux(requetes[a].cites)
           d == mentions \ requetes[a].cites
           q == [r EXCEPT !.nouveaux = n, !.dela = d]
<1>1. Avance(a, r)
  <2>1. Suivante(a, "lireMentions") /\ "lireMentions" \in DeSauvegarde
    BY DEF LireMentions, DeSauvegarde, EcritDesJours
  <2>2. requetes[a].op # "tardive"
    BY <2>1, EnMain DEF Suivante, Conforme, Tard
  <2> QED BY <2>1, <2>2, Passage
<1>2. n \in SUBSET User /\ d \in SUBSET User /\ Devient(a, q)
  <2>1. Suivante(a, "lireMentions")
    BY DEF LireMentions
  <2>2. requetes[a].cites \in SUBSET User
    BY <2>1, EnMain DEF Suivante, Demandee
  <2> QED BY <2>2 DEF Nouveaux, Types, Devient, LireMentions
<1> HIDE DEF r, n, d
<1>3. q \in Demandee /\ q.op = r.op /\ q.reste = r.reste /\ q.brouillon = r.brouillon
      /\ q.par = r.par
  BY <1>1, <1>2 DEF Demandee, Avance
<1> HIDE DEF q
<1>4. Avance(a, q)
  BY <1>1, <1>3 DEF Avance
<1> QED BY <1>2, <1>4

(* A failure ends the request, or leaves the statement it is at to come.     *)
LEMMA Echec ==
    ASSUME Types, NEW a \in Place, Echouer(a)
    PROVE  \E q : Devient(a, q) /\ (q = Libre \/ Retarde(a, q))
<1>1. PICK q \in Restant(a) \cup {Libre} : requetes' = [requetes EXCEPT ![a] = q]
  BY DEF Echouer
<1>2. CASE q \in Restant(a)
  <2> DEFINE p == requetes[a]
             i == Head(p.reste)
             s == <<i>>
  <2>1. /\ p \in Demandee /\ Occupee(a) /\ p.op = "enregistrer" /\ i \in Tard
        /\ \E n \in SUBSET p.nouveaux : q = Tardive(a, n)
    BY <1>2, EnMain DEF Echouer, Restant, Tard
  <2>2. PICK n \in SUBSET p.nouveaux : q = Tardive(a, n)
    BY <2>1
  <2>3. s \in Restes["tardive"] /\ Head(s) = i /\ "tardive" \in Executee
    BY <2>1 DEF Restes, Tard, Executee
  <2>4. s \in Reste
    BY <2>3 DEF Reste
  <2>5. q = [p EXCEPT !.op = "tardive", !.attend = FALSE, !.reste = s, !.nouveaux = n]
    BY <2>2 DEF Tardive
  <2>6. n \in SUBSET User
    <3> HIDE DEF i
    <3> QED BY <2>1 DEF Demandee
  <2> HIDE DEF s, i
  <2>7. /\ q \in Demandee /\ q.op = "tardive" /\ q.reste = s /\ q.nouveaux = n
        /\ q.par = p.par /\ q.brouillon = p.brouillon
    <3> HIDE DEF p
    <3> QED BY <2>1, <2>3, <2>4, <2>5, <2>6 DEF Demandee
  <2>8. Retarde(a, q)
    BY <2>1, <2>3, <2>7 DEF Retarde, i
  <2> QED BY <1>1, <2>8 DEF Devient
<1> QED BY <1>1, <1>2 DEF Devient

(* A step changes one request at most, which begins, goes on, comes late or  *)
(* is over; or the process stops and all are over; or a page is left.       *)
LEMMA Mouvement ==
    ASSUME Types, [Next]_vars
    PROVE  \/ requetes' = requetes
           \/ \E a \in Place : \E q : /\ Devient(a, q)
                                     /\ \/ q = Libre \/ Avance(a, q)
                                        \/ Debute(a, q) \/ Retarde(a, q)
           \/ requetes' = [a \in Place |-> Libre]
           \/ Delaissees
<1> DEFINE Un == \E a \in Place : \E q : /\ Devient(a, q)
                                        /\ \/ q = Libre \/ Avance(a, q)
                                           \/ Debute(a, q) \/ Retarde(a, q)
<1>1. ASSUME NEW a \in Place, NEW i, Suivante(a, i), Passer(a) PROVE Un
  <2>1. Devient(a, Passee(a)) /\ (Passee(a) = Libre \/ Avance(a, Passee(a)))
    BY <1>1, Passage DEF Devient, Passer
  <2> QED BY <2>1
<1>2. ASSUME NEW a \in Place, Statement(a) PROVE Un
  <2>1. CASE LireMentions(a)
    BY <2>1, Lecture
  <2>2. CASE Refuser(a)
    BY <2>2 DEF Refuser, Devient
  <2>3. CASE Creer(a)
    BY <2>3, <1>1 DEF Creer
  <2>4. CASE CreerJours(a)
    BY <2>4, <1>1 DEF CreerJours
  <2>5. CASE Verifier(a)
    BY <2>5, <1>1 DEF Verifier
  <2>6. CASE Ecrire(a)
    BY <2>6, <1>1 DEF Ecrire
  <2>7. CASE EcrireJours(a)
    BY <2>7, <1>1 DEF EcrireJours
  <2>8. CASE Retirer(a)
    BY <2>8, <1>1 DEF Retirer
  <2>9. CASE Ajouter(a)
    BY <2>9, <1>1 DEF Ajouter
  <2>10. CASE Annoncer(a)
    BY <2>10, <1>1 DEF Annoncer
  <2>11. CASE Relire(a)
    BY <2>11, <1>1 DEF Relire
  <2>12. CASE Basculer(a)
    BY <2>12, <1>1 DEF Basculer
  <2>13. CASE Supprimer(a)
    BY <2>13, <1>1 DEF Supprimer
  <2>14. CASE Charger(a)
    BY <2>14, <1>1 DEF Charger
  <2> HIDE DEF Un
  <2> QED BY <1>2, <2>1, <2>2, <2>3, <2>4, <2>5, <2>6, <2>7, <2>8, <2>9, <2>10, <2>11, <2>12,
             <2>13, <2>14 DEF Statement
<1>3. ASSUME NEW u \in User, Edition(u) PROVE requetes' = requetes \/ Un \/ Delaissees
  BY <1>3, DeLaPage
<1>4. ASSUME NEW a \in Place, Echouer(a) PROVE Un
  BY <1>4, Echec DEF Devient
<1> HIDE DEF Un
<1>5. ASSUME Next
      PROVE  requetes' = requetes \/ Un \/ requetes' = [a \in Place |-> Libre] \/ Delaissees
  BY <1>5, <1>2, <1>3, <1>4 DEF Next, Arret
<1>8. requetes' = requetes \/ Un \/ requetes' = [a \in Place |-> Libre] \/ Delaissees
  BY <1>5 DEF vars
<1> QED BY <1>8 DEF Un

(* The types hold at the start. *)
LEMMA TypesInit == Init => Types
<1> SUFFICES ASSUME Init PROVE Types
  OBVIOUS
<1>2. 0 \in Texte /\ 0 \in Nat
  BY RapportsAssumption DEF Texte
<1>1. Fermee \in UnePage /\ Libre \in Demandee /\ Libre.op = "aucune"
  <2>1. [x \in Partie |-> 0] \in [Partie -> Texte] /\ {} \in SUBSET User
    BY <1>2
  <2> QED BY <2>1, LibreEstType DEF Fermee, UnePage
<1>3. ecrit \in [Partie -> Texte] /\ enCours \in UnEnvoi
  <2>1. ecrit \in [Partie -> Texte] /\ enCours = [envoi |-> ecrit, melee |-> FALSE, par |-> Nul]
    BY <1>2 DEF Init
  <2> QED BY <2>1 DEF UnEnvoi
<1> QED BY <1>1, <1>2, <1>3 DEF Init, Types, Occupee

(* Whatever a step writes is of the right kind. *)
LEMMA TypesStep == Types /\ [Next]_vars => Types'
<1> SUFFICES ASSUME Types, [Next]_vars PROVE Types'
  OBVIOUS
<1> DEFINE TypeBase == /\ rapport \in UnRapport \cup {Nul} /\ jours \in BOOLEAN
                       /\ ecrit \in [Partie -> Texte] /\ mentions \subseteq User
                       /\ annonces \in [User -> Nat]
           TypePage == pages \in [User -> UnePage] /\ textes \in Texte
           TypeCompte == demandes \in Nat /\ incidents \in Nat
           TypeHistoire == enCours \in UnEnvoi /\ ajouts \in [User -> Nat]
           Bien == TypeBase /\ TypePage /\ TypeCompte /\ TypeHistoire
<1>t. Bien
  BY DEF Types
<1>b. UNCHANGED base => TypeBase'
  BY <1>t DEF base
<1>h. UNCHANGED histoire => TypeHistoire'
  BY <1>t DEF histoire
<1>p. UNCHANGED Page => TypePage' /\ TypeCompte'
  BY <1>t DEF Page
<1>q. /\ requetes' \in [Place -> Demandee]
      /\ \A a \in Place : Occupee(a)' =>
            requetes'[a].reste \in Restes[requetes'[a].op] /\ requetes'[a].par \in User
  <2>1. ASSUME NEW a \in Place, NEW q, Devient(a, q),
               q = Libre \/ Avance(a, q) \/ Debute(a, q) \/ Retarde(a, q)
        PROVE  /\ requetes' \in [Place -> Demandee]
               /\ \A d \in Place : Occupee(d)' =>
                     requetes'[d].reste \in Restes[requetes'[d].op] /\ requetes'[d].par \in User
    <3>1. q \in Demandee /\ (q.op # "aucune" => q.reste \in Restes[q.op] /\ q.par \in User)
      BY <2>1, LibreEstType, LesRestes, EnMain DEF Avance, Debute, Retarde, Auteur
    <3> QED BY <2>1, <3>1 DEF Types, Devient, Occupee
  <2>2. CASE requetes' = [a \in Place |-> Libre]
    BY <2>2, LibreEstType DEF Occupee
  <2>3. CASE requetes' = requetes
    BY <2>3 DEF Types, Occupee
  <2>4. CASE Delaissees
    BY <2>4 DEF Types, Occupee, Delaissees, Delaissee
  <2> QED BY <2>1, <2>2, <2>3, <2>4, Mouvement
<1>n. /\ 0 \in Texte /\ 0 \in Nat /\ MaxTextes \in Nat
  BY RapportsAssumption DEF Texte
<1>1. ASSUME NEW a \in Place, Statement(a) PROVE Bien'
  <2>0. Occupee(a)
    BY <1>1 DEF Statement, Creer, CreerJours, Verifier, Ecrire, EcrireJours, LireMentions,
       Retirer, Ajouter, Annoncer, Relire, Basculer, Supprimer, Charger, Refuser, Suivante
  <2>1. /\ requetes[a].brouillon \in [Partie -> Texte] /\ requetes[a].dela \subseteq User
        /\ requetes[a].nouveaux \subseteq User /\ Auteur(a) \in User
    BY <2>0, EnMain DEF Demandee
  <2>2. CASE Creer(a)
    <3>1. rapport' \in UnRapport
      BY <2>2 DEF Creer, UnRapport, TypeRapport
    <3> QED BY <2>2, <3>1, <1>t, <1>p, <1>h DEF Creer
  <2>3. CASE CreerJours(a)
    BY <2>3, <1>t, <1>p, <1>h DEF CreerJours
  <2>4. CASE Verifier(a) \/ Relire(a) \/ LireMentions(a) \/ Refuser(a)
    BY <2>4, <1>t, <1>p, <1>h, <1>b DEF Verifier, Relire, LireMentions, Refuser
  <2>5. CASE Ecrire(a)
    <3>1. ecrit' \in [Partie -> Texte]
      BY <2>1, <2>5, <1>t DEF Ecrire, Partie
    <3>2. [x \in Partie |-> IF x \in Parties(rapport.type) THEN requetes[a].brouillon[x] ELSE 0]
             \in [Partie -> Texte]
      BY <2>1, <1>n
    <3>3. enCours' \in UnEnvoi
      BY <2>5, <3>2 DEF Ecrire, UnEnvoi
    <3> QED BY <2>5, <3>1, <3>3, <1>t, <1>p DEF Ecrire
  <2>6. CASE EcrireJours(a)
    <3>1. ecrit' \in [Partie -> Texte]
      BY <2>1, <2>6, <1>t DEF EcrireJours
    <3>2. enCours' \in UnEnvoi
      BY <2>6, <1>t DEF EcrireJours, UnEnvoi
    <3> QED BY <2>6, <3>1, <3>2, <1>t, <1>p DEF EcrireJours
  <2>7. CASE Retirer(a)
    BY <2>7, <1>t, <1>p, <1>h DEF Retirer
  <2>8. CASE Ajouter(a)
    <3>1. ajouts' \in [User -> Nat]
      BY <2>8, <1>t DEF Ajouter
    <3> QED BY <2>1, <2>8, <3>1, <1>t, <1>p DEF Ajouter
  <2>9. CASE Annoncer(a)
    <3>1. annonces' \in [User -> Nat]
      BY <2>9, <1>t DEF Annoncer
    <3> QED BY <2>9, <3>1, <1>t, <1>p, <1>h DEF Annoncer
  <2>10. CASE Basculer(a)
    <3>1. rapport' \in UnRapport
      <4>1. rapport \in UnRapport
        BY <2>10, <1>t DEF Basculer, Existe
      <4>2. PICK prive \in BOOLEAN : rapport' = [rapport EXCEPT !.prive = prive]
        BY <2>10 DEF Basculer
      <4> QED BY <4>1, <4>2 DEF UnRapport
    <3> QED BY <2>10, <3>1, <1>t, <1>p, <1>h DEF Basculer
  <2>11. CASE Supprimer(a)
    <3>1. ecrit' \in [Partie -> Texte] /\ Fermee \in UnePage
      <4>1. [x \in Partie |-> 0] \in [Partie -> Texte] /\ {} \in SUBSET User
        BY <1>n
      <4> QED BY <2>11, <4>1 DEF Supprimer, Fermee, UnePage
    <3>2. pages' \in [User -> UnePage]
      BY <2>1, <2>11, <3>1, <1>t DEF Supprimer
    <3> QED BY <2>11, <3>1, <3>2, <1>t, <1>h DEF Supprimer
  <2>12. CASE Charger(a)
    <3>1. rapport \in UnRapport
      BY <2>12, <1>t DEF Charger, Accede, Existe
    <3>2. pages[Auteur(a)].edite \in BOOLEAN
      BY <2>1, <1>t DEF UnePage
    <3>3. PICK q \in UnePage : pages' = pages \/ pages' = [pages EXCEPT ![Auteur(a)] = q]
      <4>1. [vue |-> rapport.type,
             edite |-> pages[Auteur(a)].edite /\ requetes[a].op # "enregistrer",
             brouillon |-> ecrit, cites |-> mentions] \in UnePage
        BY <3>1, <3>2, <1>t DEF UnePage, UnRapport
      <4> QED BY <2>1, <2>12, <4>1, <1>t DEF Charger
    <3>4. pages' \in [User -> UnePage]
      BY <3>3, <1>t
    <3> QED BY <2>12, <3>4, <1>t, <1>b, <1>h DEF Charger
  <2> HIDE DEF Bien
  <2> QED BY <1>1, <2>2, <2>3, <2>4, <2>5, <2>6, <2>7, <2>8, <2>9, <2>10, <2>11, <2>12
          DEF Statement
<1>2. ASSUME NEW u \in User, Edition(u) PROVE Bien'
  <2>0. pages[u] \in UnePage
    BY <1>t
  <2>1. ASSUME NEW a \in Place, NEW op \in Operation, Demander(u, a, op) PROVE Bien'
    <3>1. demandes' \in Nat
      BY <2>1, <1>t DEF Demander
    <3> QED BY <2>1, <3>1, <1>t, <1>b, <1>h DEF Demander
  <2>2. CASE Editer(u) \/ \E a \in Place : Annuler(u, a)
    <3>1. \A e \in BOOLEAN : [pages[u] EXCEPT !.edite = e] \in UnePage
      BY <2>0 DEF UnePage
    <3>2. pages' \in [User -> UnePage]
      BY <2>2, <3>1, <1>t DEF Editer, Annuler
    <3> QED BY <2>2, <3>2, <1>t, <1>b, <1>h DEF Editer, Annuler
  <2>3. ASSUME NEW x \in Partie, Taper(u, x) PROVE Bien'
    <3>1. textes' \in Texte
      BY <2>3, <1>t, <1>n DEF Taper, Texte
    <3>2. [pages[u].brouillon EXCEPT ![x] = textes'] \in [Partie -> Texte]
      BY <2>0, <3>1 DEF UnePage
    <3>3. \A b \in [Partie -> Texte] : [pages[u] EXCEPT !.brouillon = b] \in UnePage
      BY <2>0 DEF UnePage
    <3>4. pages' = [pages EXCEPT ![u] = [pages[u] EXCEPT
                       !.brouillon = [pages[u].brouillon EXCEPT ![x] = textes']]]
      BY <2>0, <2>3, <1>t DEF Taper, UnePage
    <3>5. pages' \in [User -> UnePage]
      BY <3>2, <3>3, <3>4, <1>t
    <3> QED BY <2>3, <3>1, <3>5, <1>t, <1>b, <1>h DEF Taper
  <2>4. ASSUME NEW cites \in SUBSET User, Citer(u, cites) PROVE Bien'
    <3>1. textes' \in Texte
      BY <2>4, <1>t, <1>n DEF Citer, Texte
    <3>2. [pages[u] EXCEPT !.cites = cites] \in UnePage
      BY <2>0 DEF UnePage
    <3>3. pages' \in [User -> UnePage]
      BY <2>4, <3>2, <1>t DEF Citer
    <3> QED BY <2>4, <3>1, <3>3, <1>t, <1>b, <1>h DEF Citer
  <2>5. CASE Quitter(u)
    <3>1. [x \in Partie |-> 0] \in [Partie -> Texte] /\ {} \in SUBSET User
      BY <1>n
    <3>2. Fermee \in UnePage
      BY <3>1 DEF Fermee, UnePage
    <3>3. pages' \in [User -> UnePage]
      BY <2>5, <3>2, <1>t DEF Quitter
    <3> QED BY <2>5, <3>3, <1>t, <1>b, <1>h DEF Quitter
  <2> HIDE DEF Bien
  <2> QED BY <1>2, <2>1, <2>2, <2>3, <2>4, <2>5 DEF Edition
<1>3. ASSUME Arret \/ \E a \in Place : Echouer(a) PROVE Bien'
  <2>1. incidents' \in Nat
    BY <1>3, <1>t DEF Arret, Echouer
  <2> QED BY <1>3, <2>1, <1>t, <1>b, <1>h DEF Arret, Echouer
<1>4. Bien'
  <2>1. ASSUME UNCHANGED vars PROVE Bien'
    BY <2>1, <1>t DEF vars, base, histoire
  <2> HIDE DEF Bien
  <2> QED BY <2>1, <1>1, <1>2, <1>3 DEF Next
<1> QED BY <1>4, <1>q DEF Types

(* The program's state is always one the types describe. *)
LEMMA TypesToujours == Spec => []Types
BY TypesInit, TypesStep, PTL DEF Spec

(* The types of the rows, the pages and the requests, for any organisation  *)
(* and any number of texts, requests and failures (rapports.service.ts).    *)
THEOREM RapportsTypeCorrect == Spec => []TypeRapports
<1>1. Reste \cup {<< >>} \subseteq Seq(Instruction)
  <2>1. \A op \in Executee : \A s \in Restes[op] : s \in Seq(Instruction)
    BY LesRestes DEF Conforme
  <2>2. << >> \in Seq(Instruction)
    OBVIOUS
  <2> QED BY <2>1, <2>2 DEF Reste
<1>2. Types => TypeRapports
  <2> SUFFICES ASSUME Types PROVE TypeRapports
    OBVIOUS
  <2>1. Demandee \subseteq Requete
    BY <1>1 DEF Demandee, Requete
  <2> QED BY <2>1 DEF Types, TypeRapports, UnRapport, UnePage
<1> QED BY <1>2, TypesToujours, PTL

-----------------------------------------------------------------------------
(* Until the report is there, nothing hangs from it.                        *)

Initiale ==
    /\ rapport = Nul /\ ecrit = [x \in Partie |-> 0]
    /\ enCours.envoi = [x \in Partie |-> 0] /\ annonces = ajouts
    /\ \A u \in User : pages[u].vue = Nul /\ ~pages[u].edite

Vierge ==
    /\ demandes = 0 => Initiale /\ \A a \in Place : ~Occupee(a)
    /\ \A a \in Place : Suivante(a, "creer") => Initiale /\ \A d \in Place \ {a} : ~Occupee(d)

(* Before its creation the pages ask for nothing else. *)
LEMMA RienAFaire ==
    ASSUME Initiale, NEW u \in User, Edition(u)
    PROVE  \E a \in Place : \E op \in {"creerGENERAL", "creerWEEKLY"} :
              Demander(u, a, op) /\ demandes = 0
<1>1. ASSUME NEW a \in Place, NEW op \in Operation, Demander(u, a, op),
             op \notin {"creerGENERAL", "creerWEEKLY"}
      PROVE  FALSE
  BY <1>1, LesRestes DEF Demander, Offre, Initiale, Existe
<1>2. ASSUME NEW a \in Place, NEW op \in Operation, Demander(u, a, op),
             op \in {"creerGENERAL", "creerWEEKLY"}
      PROVE  demandes = 0
  BY <1>2 DEF Demander, Offre, Nouveau
<1>3. ~Editer(u) /\ ~Quitter(u) /\ (\A a \in Place : ~Annuler(u, a))
      /\ (\A x \in Partie : ~Taper(u, x)) /\ \A cites \in SUBSET User : ~Citer(u, cites)
  BY DEF Editer, Quitter, Annuler, Taper, Citer, Initiale
<1> QED BY <1>1, <1>2, <1>3 DEF Edition

(* No statement leads back to the creation. *)
LEMMA SansRetour == \A i \in DOMAIN Suite : "creer" \notin Suite[i]
<1>1. DOMAIN Suite = {"verifier", "ecrire", "ecrireJours", "lireMentions", "retirer",
                      "ajouter", "annoncer", "relire", "basculer", "creer"}
  BY DEF Suite
<1> QED BY <1>1 DEF Suite

(* A statement of a request is one of a request in hand, which it does not  *)
(* bring back to the creation.                                              *)
LEMMA PasDeCreation ==
    ASSUME Types, NEW a \in Place, NEW d \in Place, Statement(d) \/ Echouer(d) \/ Arret,
           Suivante(a, "creer")'
    PROVE  /\ requetes'[a] = requetes[a] /\ Suivante(a, "creer")
           /\ (Statement(d) \/ Echouer(d)) => d # a /\ Occupee(d)
<1>1. ASSUME NEW i, Suivante(d, i), Passer(d)
      PROVE  requetes'[a] = requetes[a] /\ d # a
  <2>1. Passee(d) = Libre \/ Avance(d, Passee(d))
    BY <1>1, Passage
  <2>2. d # a
    <3> SUFFICES ASSUME d = a PROVE FALSE
      OBVIOUS
    <3>1. requetes'[a] = Passee(d)
      BY <1>1 DEF Passer, Types
    <3>2. Avance(d, Passee(d))
      BY <2>1, <3>1, LibreEstType DEF Suivante, Occupee
    <3>3. Head(Passee(d).reste) # "creer"
      BY <3>2, SansRetour DEF Avance
    <3> QED BY <3>1, <3>3 DEF Suivante
  <2> QED BY <1>1, <2>2 DEF Passer, Types
<1>2. ASSUME LireMentions(d) PROVE requetes'[a] = requetes[a] /\ d # a
  <2>1. PICK q : Avance(d, q) /\ Devient(d, q)
    BY <1>2, Lecture
  <2>2. Head(q.reste) # "creer"
    BY <2>1, SansRetour DEF Avance
  <2> QED BY <2>1, <2>2 DEF Devient, Types, Suivante
<1>3. ASSUME requetes' = [requetes EXCEPT ![d] = Libre]
      PROVE  requetes'[a] = requetes[a] /\ d # a
  BY <1>3, LibreEstType DEF Types, Suivante, Occupee
<1>4. ~Arret
  BY LibreEstType DEF Arret, Suivante, Occupee
<1>5. Occupee(d)
  BY <1>4 DEF Statement, Creer, CreerJours, Verifier, Ecrire, EcrireJours, LireMentions,
     Retirer, Ajouter, Annoncer, Relire, Basculer, Supprimer, Charger, Refuser, Suivante,
     Echouer
<1>7. ASSUME NEW q, Retarde(d, q), Devient(d, q)
      PROVE  requetes'[a] = requetes[a] /\ d # a
  <2>1. Head(q.reste) # "creer"
    <3>1. Restes["tardive"] = {<<"ecrireJours">>, <<"annoncer">>}
      BY DEF Restes
    <3> QED BY <1>7, <3>1 DEF Retarde
  <2> QED BY <1>7, <2>1 DEF Devient, Types, Suivante
<1>8. ASSUME Echouer(d) PROVE requetes'[a] = requetes[a] /\ d # a
  BY <1>3, <1>7, <1>8, Echec DEF Devient
<1>6. requetes'[a] = requetes[a] /\ d # a
  BY <1>1, <1>2, <1>3, <1>4, <1>8 DEF Statement, Creer, CreerJours, Verifier, Ecrire, EcrireJours,
     Retirer, Ajouter, Annoncer, Relire, Basculer, Supprimer, Charger, Refuser
<1> QED BY <1>5, <1>6 DEF Suivante, Occupee

(* It is so at the start, and as long as the creation is not over.          *)
LEMMA ViergeCorrect == Spec => []Vierge
<1>1. Init => Vierge
  BY LibreEstType DEF Init, Vierge, Initiale, Suivante, Occupee, Fermee
<1>2. Types /\ Vierge /\ [Next]_vars => Vierge'
  <2> SUFFICES ASSUME Types, Vierge, [Next]_vars PROVE Vierge'
    OBVIOUS
  <2>0. ASSUME UNCHANGED vars PROVE Vierge'
    BY <2>0 DEF Vierge, Initiale, Suivante, Occupee, vars, base, histoire
  <2>1. ASSUME NEW d \in Place, Statement(d) \/ Echouer(d) \/ Arret PROVE Vierge'
    <3>1. demandes' # 0
      <4>1. Arret \/ Occupee(d)
        BY <2>1 DEF Statement, Creer, CreerJours, Verifier, Ecrire, EcrireJours, LireMentions,
           Retirer, Ajouter, Annoncer, Relire, Basculer, Supprimer, Charger, Refuser, Suivante,
           Echouer
      <4>2. demandes # 0
        BY <4>1 DEF Vierge, Arret
      <4>3. demandes' = demandes
        BY <2>1 DEF Statement, Creer, CreerJours, Verifier, Ecrire, EcrireJours, LireMentions,
           Retirer, Ajouter, Annoncer, Relire, Basculer, Supprimer, Charger, Refuser, Page,
           Echouer, Arret
      <4> QED BY <4>2, <4>3
    <3>2. ASSUME NEW a \in Place, Suivante(a, "creer")' PROVE FALSE
      <4>1. Suivante(a, "creer") /\ ((Statement(d) \/ Echouer(d)) => d # a /\ Occupee(d))
        BY <2>1, <3>2, PasDeCreation
      <4>2. ~Arret
        BY <3>2, LibreEstType DEF Arret, Suivante, Occupee
      <4> QED BY <2>1, <4>1, <4>2 DEF Vierge
    <3> QED BY <3>1, <3>2 DEF Vierge
  <2>2. ASSUME NEW u \in User, Edition(u) PROVE Vierge'
    <3>1. ASSUME Initiale PROVE Vierge'
      <4>1. PICK d \in Place : \E op \in {"creerGENERAL", "creerWEEKLY"} :
               Demander(u, d, op) /\ demandes = 0
        BY <2>2, <3>1, RienAFaire
      <4>2. Initiale' /\ demandes' # 0
        BY <3>1, <4>1 DEF Demander, Initiale, base, histoire
      <4>3. \A a \in Place : a # d => ~Occupee(a)'
        BY <4>1 DEF Vierge, Demander, Types, Occupee
      <4> QED BY <4>2, <4>3 DEF Vierge, Suivante
    <3>2. ASSUME ~Initiale PROVE Vierge'
      <4>1. demandes # 0 /\ \A a \in Place : ~Suivante(a, "creer")
        BY <3>2 DEF Vierge
      <4>2. demandes' # 0
        <5>1. ASSUME NEW a \in Place, NEW op \in Operation, Demander(u, a, op) PROVE demandes' # 0
          <6>1. demandes \in Nat /\ demandes' = demandes + (IF op = "ouvrir" THEN 0 ELSE 1)
            BY <5>1 DEF Demander, Types
          <6> QED BY <4>1, <6>1
        <5> QED BY <2>2, <4>1, <5>1 DEF Edition, Editer, Quitter, Annuler, Taper, Citer
      <4>3. \/ requetes' = requetes
            \/ Delaissees
            \/ \E d \in Place : \E q : /\ Debute(d, q) /\ Devient(d, q)
                                        /\ q.op \notin {"creerGENERAL", "creerWEEKLY"}
        <5>1. \A d \in Place : \A op \in {"creerGENERAL", "creerWEEKLY"} : ~Demander(u, d, op)
          BY <4>1 DEF Demander, Offre, Nouveau
        <5> QED BY <2>2, <5>1, DeLaPage
      <4>4. \A a \in Place : ~Suivante(a, "creer")'
        <5>1. ASSUME NEW d \in Place, NEW q, Debute(d, q), q.op \notin {"creerGENERAL", "creerWEEKLY"}
              PROVE  Head(q.reste) # "creer"
          <6>1. q.op \in Executee /\ q.reste \in Restes[q.op]
            BY <5>1, LesRestes DEF Debute, Executee
          <6> QED BY <5>1, <6>1, LesRestes DEF Conforme
        <5>2. CASE Delaissees
          BY <4>1, <5>2 DEF Suivante, Occupee, Delaissees, Delaissee
        <5>3. CASE requetes' = requetes
          BY <4>1, <5>3 DEF Suivante, Occupee
        <5>4. ASSUME NEW d \in Place, NEW q, Debute(d, q), Devient(d, q),
                     q.op \notin {"creerGENERAL", "creerWEEKLY"}, NEW a \in Place
              PROVE  ~Suivante(a, "creer")'
          <6>1. requetes'[d] = q /\ \A e \in Place \ {d} : requetes'[e] = requetes[e]
            BY <5>4 DEF Devient, Types
          <6>2. CASE a = d
            <7>1. Head(q.reste) # "creer"
              BY <5>1, <5>4
            <7> QED BY <6>1, <6>2, <7>1 DEF Suivante
          <6>3. CASE a # d
            <7>1. requetes'[a] = requetes[a] /\ ~Suivante(a, "creer")
              BY <4>1, <6>1, <6>3
            <7> QED BY <7>1 DEF Suivante, Occupee
          <6> QED BY <6>2, <6>3
        <5> QED BY <4>3, <5>2, <5>3, <5>4
      <4> QED BY <4>2, <4>4 DEF Vierge
    <3> QED BY <3>1, <3>2
  <2>3. ASSUME Arret PROVE Vierge'
    <3>1. PICK d \in Place : Occupee(d)
      BY <2>3 DEF Arret
    <3> QED BY <2>1, <2>3, <3>1
  <2> QED BY <2>0, <2>1, <2>2, <2>3 DEF Next
<1> QED BY <1>1, <1>2, TypesToujours, PTL DEF Spec

-----------------------------------------------------------------------------
(* What a step leaves of the saves under way, and of the mentions to tell.   *)

(* A save that has written something, up to the reload of its page. *)
Sauvegarde(a) == requetes[a].op = "enregistrer" /\ (Ecrit(a) \/ Suivante(a, "charger"))

(* One request, for the texts: a save neither begins to write nor writes.   *)
Tranquille(a) ==
    /\ Sauvegarde(a)' => /\ Sauvegarde(a) /\ requetes'[a].brouillon = requetes[a].brouillon
                         /\ Suivante(a, "ecrireJours")' <=> Suivante(a, "ecrireJours")
    /\ Suivante(a, "ecrireJours")' => /\ Suivante(a, "ecrireJours")
                                      /\ requetes'[a].brouillon = requetes[a].brouillon
    /\ Ecrit(a)' => Ecrit(a)
    /\ (incidents' = 0 /\ Suivante(a, "ecrireJours")) => Suivante(a, "ecrireJours")'

(* One request, for the mentions: nobody new to be told, nobody told.       *)
Muet(a) ==
    /\ Suivante(a, "annoncer")' => /\ Suivante(a, "annoncer") /\ Auteur(a)' = Auteur(a)
                                   /\ requetes'[a].nouveaux \subseteq requetes[a].nouveaux
    /\ (incidents' = 0 /\ Existe' /\ Suivante(a, "annoncer"))
          => Suivante(a, "annoncer")' /\ requetes'[a].nouveaux = requetes[a].nouveaux

(* A request that a step leaves as it is, but for who waits for it. *)
LEMMA Ailleurs ==
    ASSUME NEW a \in Place, requetes'[a] = requetes[a] \/ Delaissee(a)
    PROVE  Tranquille(a) /\ Muet(a)
BY DEF Tranquille, Muet, Sauvegarde, Ecrit, Suivante, Occupee, Delaissee, Auteur

(* One whose statement is to come late, and one that failed. *)
LEMMA EnRetard ==
    ASSUME Types, NEW a \in Place, NEW q, requetes'[a] = q, Retarde(a, q), incidents' # 0
    PROVE  Tranquille(a) /\ Muet(a)
<1>1. /\ q.op = "tardive" /\ requetes[a].op = "enregistrer"
      /\ Head(q.reste) = Head(requetes[a].reste) /\ q.par = requetes[a].par
      /\ q.brouillon = requetes[a].brouillon /\ q.nouveaux \subseteq requetes[a].nouveaux
  BY DEF Retarde
<1>2. Tranquille(a)
  BY <1>1 DEF Tranquille, Sauvegarde, Ecrit, Suivante, Occupee
<1>3. Muet(a)
  BY <1>1 DEF Muet, Suivante, Occupee, Auteur
<1> QED BY <1>2, <1>3

(* One that goes on, other than over the statements in question. *)
LEMMA Ensuite ==
    ASSUME Types, NEW a \in Place, NEW q, Avance(a, q), requetes'[a] = q
    PROVE  /\ Head(requetes[a].reste) \notin {"ecrire", "ecrireJours"} => Tranquille(a)
           /\ (Head(requetes[a].reste) \notin {"ajouter", "annoncer"}
               /\ q.nouveaux = requetes[a].nouveaux) => Muet(a)
           /\ Head(requetes[a].reste) = "lireMentions" => Muet(a)
<1> DEFINE r == requetes[a]
           i == Head(r.reste)
<1>1. /\ r.op \in Executee /\ Conforme(r.op, r.reste) /\ Occupee(a)
      /\ q.op = r.op /\ q.brouillon = r.brouillon /\ q.reste = Tail(r.reste)
      /\ i \in DOMAIN Suite /\ Head(q.reste) \in Suite[i] /\ q.par = r.par
  BY EnMain DEF Avance
<1>s. /\ DOMAIN Suite = {"verifier", "ecrire", "ecrireJours", "lireMentions", "retirer",
                         "ajouter", "annoncer", "relire", "basculer", "creer"}
      /\ Suite["verifier"] = {"ecrire", "charger", "supprimer"}
      /\ Suite["ecrire"] = {"ecrireJours"} /\ Suite["ecrireJours"] = {"lireMentions"}
      /\ Suite["lireMentions"] = {"retirer"} /\ Suite["retirer"] = {"ajouter"}
      /\ Suite["ajouter"] = {"annoncer"} /\ Suite["annoncer"] = {"relire"}
      /\ Suite["relire"] = {"charger"} /\ Suite["basculer"] = {"charger"}
      /\ Suite["creer"] = {"creerJours"}
  BY DEF Suite
<1>2. ASSUME r.op = "enregistrer", i \notin {"ecrire", "ecrireJours"}
      PROVE  /\ \/ i = "verifier" /\ Head(q.reste) = "ecrire"
                \/ i \in EcritDesJours /\ Head(q.reste) \in EcritDesJours \cup {"charger"}
             /\ Head(q.reste) # "ecrireJours"
  <2>1. i \in {"verifier"} \cup EcritDesJours
    <3>1. i \in {"verifier", "charger"} \cup DeSauvegarde
      BY <1>1, <1>2 DEF Conforme
    <3>2. i # "charger"
      BY <1>1, <1>s
    <3> QED BY <1>2, <3>1, <3>2 DEF DeSauvegarde
  <2>2. CASE i = "verifier"
    BY <1>1, <1>2, <2>2 DEF Conforme
  <2>3. CASE i \in EcritDesJours
    BY <1>1, <1>2, <1>s, <2>3 DEF EcritDesJours
  <2> QED BY <2>1, <2>2, <2>3
<1>3. /\ r.op = "tardive" => Head(q.reste) \in {"lireMentions", "relire"}
      /\ r.op = "tardive" => i \in EcritDesJours
      /\ Head(q.reste) = "ecrireJours" => i = "ecrire"
  BY <1>1, <1>s DEF Conforme, Tard, EcritDesJours
<1>4. ASSUME i \notin {"ecrire", "ecrireJours"} PROVE Tranquille(a)
  <2>1. ~Suivante(a, "ecrireJours") /\ ~Suivante(a, "ecrireJours")'
    BY <1>1, <1>3, <1>4 DEF Suivante
  <2>2. Ecrit(a)' => Ecrit(a)
    BY <1>1, <1>2, <1>3, <1>4 DEF Ecrit, EcritDesJours
  <2>3. Sauvegarde(a)' => Sauvegarde(a)
    BY <1>1, <1>2, <1>4 DEF Sauvegarde, Ecrit, Suivante, Occupee, EcritDesJours
  <2> QED BY <1>1, <2>1, <2>2, <2>3 DEF Tranquille
<1>5. ASSUME i \notin {"ajouter", "annoncer"} PROVE Head(q.reste) # "annoncer"
  BY <1>1, <1>s, <1>5
<1>6. ASSUME i \notin {"ajouter", "annoncer"} PROVE Muet(a)
  BY <1>1, <1>5, <1>6 DEF Muet, Suivante, Occupee, Auteur
<1> QED BY <1>4, <1>6

(* One that is over, and one that begins. *)
LEMMA FinOuDebut ==
    ASSUME Types, NEW a \in Place, NEW q, requetes'[a] = q
    PROVE  /\ (q = Libre /\ (Suivante(a, "ecrireJours") => incidents' # 0)) => Tranquille(a)
           /\ (q = Libre /\ (Suivante(a, "annoncer") => incidents' # 0 \/ ~Existe')) => Muet(a)
           /\ Debute(a, q) => Tranquille(a) /\ Muet(a)
<1>1. ASSUME q = Libre
      PROVE  ~Sauvegarde(a)' /\ ~Ecrit(a)' /\ \A i : ~Suivante(a, i)'
  BY <1>1, LibreEstType DEF Sauvegarde, Ecrit, Suivante, Occupee
<1>2. ASSUME Debute(a, q)
      PROVE  ~Sauvegarde(a)' /\ ~Ecrit(a)' /\ ~Suivante(a, "annoncer")'
             /\ ~Suivante(a, "ecrireJours")' /\ \A i : ~Suivante(a, i)
  <2>1. Head(q.reste) \notin DeSauvegarde /\ (q.op = "enregistrer" => Head(q.reste) # "charger")
    BY <1>2, LesRestes DEF Debute
  <2>2. requetes'[a] = q /\ ~Occupee(a) /\ EcritDesJours \subseteq DeSauvegarde
        /\ "annoncer" \in DeSauvegarde
    BY <1>2 DEF Debute, DeSauvegarde, EcritDesJours
  <2>3. ~Ecrit(a)' /\ ~Suivante(a, "annoncer")'
    BY <2>1, <2>2 DEF Ecrit, Suivante
  <2>4. ~Sauvegarde(a)'
    BY <2>1, <2>2, <2>3 DEF Sauvegarde, Suivante
  <2>5. \A i : ~Suivante(a, i)
    BY <2>2 DEF Suivante
  <2>6. ~Suivante(a, "ecrireJours")'
    BY <2>1, <2>2 DEF Suivante, DeSauvegarde, EcritDesJours
  <2> QED BY <2>3, <2>4, <2>5, <2>6
<1> QED BY <1>1, <1>2 DEF Tranquille, Muet

(* A step that is calm for everybody, and one that leaves the mentions. *)
Calme ==
    /\ incidents' = 0 => incidents = 0
    /\ Existe' => /\ Existe /\ rapport'.type = rapport.type
                  /\ ecrit' = ecrit /\ enCours' = enCours
    /\ \A a \in Place : Tranquille(a)
Muette ==
    /\ incidents' = 0 => incidents = 0
    /\ Existe' => Existe
    /\ annonces' = annonces /\ ajouts' = ajouts
    /\ \A a \in Place : Muet(a)

(* Which steps are not calm: the three that write the texts.                *)
LEMMA PasCalmes ==
    ASSUME Types, [Next]_vars
    PROVE  Calme \/ \E a \in Place : Creer(a) \/ Ecrire(a) \/ EcrireJours(a)
<1>0. ASSUME UNCHANGED vars PROVE Calme
  BY <1>0, Ailleurs DEF vars, base, histoire, Calme, Existe
<1>1. ASSUME NEW a \in Place, NEW i, i \notin {"ecrire", "ecrireJours"},
             Suivante(a, i), Passer(a)
      PROVE  \A d \in Place : Tranquille(d)
  <2>1. requetes'[a] = Passee(a) /\ \A d \in Place \ {a} : requetes'[d] = requetes[d]
    BY <1>1 DEF Passer, Types
  <2>2. Tranquille(a)
    <3>1. Head(requetes[a].reste) = i
      BY <1>1 DEF Suivante
    <3>2. CASE Passee(a) = Libre
      BY <1>1, <2>1, <3>1, <3>2, FinOuDebut DEF Suivante
    <3>3. CASE Avance(a, Passee(a))
      BY <1>1, <2>1, <3>1, <3>3, Ensuite
    <3> QED BY <1>1, <3>2, <3>3, Passage
  <2> QED BY <2>1, <2>2, Ailleurs
<1>2. ASSUME NEW a \in Place, Statement(a), ~Creer(a), ~Ecrire(a), ~EcrireJours(a) PROVE Calme
  <2>1. CASE CreerJours(a) \/ Verifier(a) \/ Retirer(a) \/ Ajouter(a) \/ Annoncer(a) \/ Relire(a)
             \/ Charger(a)
    <3>1. \A d \in Place : Tranquille(d)
      BY <2>1, <1>1 DEF CreerJours, Verifier, Retirer, Ajouter, Annoncer, Relire, Charger
    <3> QED BY <2>1, <3>1 DEF Calme, CreerJours, Verifier, Retirer, Ajouter, Annoncer, Relire,
            Charger, Page, base, histoire, Existe
  <2>2. CASE LireMentions(a)
    <3>1. PICK q : Avance(a, q) /\ Devient(a, q)
      BY <2>2, Lecture
    <3>2. Head(requetes[a].reste) = "lireMentions" /\ requetes'[a] = q
          /\ \A d \in Place \ {a} : requetes'[d] = requetes[d]
      BY <2>2, <3>1 DEF LireMentions, Suivante, Devient, Types
    <3>3. \A d \in Place : Tranquille(d)
      BY <3>1, <3>2, Ensuite, Ailleurs
    <3> QED BY <2>2, <3>3 DEF Calme, LireMentions, Page, base, histoire, Existe
  <2>3. CASE Basculer(a)
    <3>1. \A d \in Place : Tranquille(d)
      BY <2>3, <1>1 DEF Basculer
    <3>2. Existe /\ rapport'.type = rapport.type
      <4>1. Existe /\ \E prive \in BOOLEAN : rapport' = [rapport EXCEPT !.prive = prive]
        BY <2>3 DEF Basculer
      <4>2. rapport \in UnRapport
        BY <4>1 DEF Types, Existe
      <4> QED BY <4>1, <4>2 DEF UnRapport
    <3> QED BY <2>3, <3>1, <3>2 DEF Calme, Basculer, Page, histoire
  <2>4. CASE Supprimer(a)
    <3>1. \A d \in Place : Tranquille(d)
      BY <2>4, <1>1 DEF Supprimer
    <3> QED BY <2>4, <3>1 DEF Calme, Supprimer, Existe
  <2>5. CASE Refuser(a)
    <3>1. requetes'[a] = Libre /\ \A d \in Place \ {a} : requetes'[d] = requetes[d]
      BY <2>5 DEF Refuser, Types
    <3>2. ~Suivante(a, "ecrireJours")
      BY <2>5 DEF Refuser, Refusee, Suivante
    <3>3. \A d \in Place : Tranquille(d)
      BY <3>1, <3>2, FinOuDebut, Ailleurs
    <3> QED BY <2>5, <3>3 DEF Calme, Refuser, Page, base, histoire, Existe
  <2> QED BY <1>2, <2>1, <2>2, <2>3, <2>4, <2>5 DEF Statement
<1>3. ASSUME NEW u \in User, Edition(u) PROVE Calme
  <2>1. requetes' = requetes \/ Delaissees \/ \E a \in Place : \E q : Debute(a, q) /\ Devient(a, q)
    BY <1>3, DeLaPage
  <2>2. \A d \in Place : Tranquille(d)
    <3>1. ASSUME requetes' = requetes \/ Delaissees PROVE \A d \in Place : Tranquille(d)
      BY <3>1, Ailleurs DEF Delaissees
    <3>2. ASSUME NEW a \in Place, NEW q, Debute(a, q), Devient(a, q)
          PROVE  \A d \in Place : Tranquille(d)
      <4>1. requetes'[a] = q /\ \A d \in Place \ {a} : requetes'[d] = requetes[d]
        BY <3>2 DEF Devient, Types
      <4> QED BY <3>2, <4>1, FinOuDebut, Ailleurs
    <3> QED BY <2>1, <3>1, <3>2
  <2>3. UNCHANGED <<base, incidents, histoire>>
    BY <1>3 DEF Edition, Demander, Editer, Taper, Citer, Annuler, Quitter
  <2> QED BY <2>2, <2>3 DEF Calme, base, histoire, Existe
<1>4. ASSUME Arret \/ \E a \in Place : Echouer(a) PROVE Calme
  <2>1. incidents' # 0 /\ UNCHANGED <<base, histoire>>
    BY <1>4 DEF Arret, Echouer, Types
  <2>2. ASSUME NEW d \in Place PROVE Tranquille(d)
    <3>1. CASE Arret
      <4>1. requetes'[d] = Libre
        BY <3>1 DEF Arret
      <4> QED BY <2>1, <4>1, FinOuDebut
    <3>2. ASSUME NEW a \in Place, Echouer(a) PROVE Tranquille(d)
      <4>1. PICK q : Devient(a, q) /\ (q = Libre \/ Retarde(a, q))
        BY <3>2, Echec
      <4>2. requetes'[a] = q /\ \A e \in Place \ {a} : requetes'[e] = requetes[e]
        BY <4>1 DEF Devient, Types
      <4> QED BY <2>1, <4>1, <4>2, FinOuDebut, EnRetard, Ailleurs
    <3> QED BY <1>4, <3>1, <3>2
  <2> QED BY <2>1, <2>2 DEF Calme, base, histoire, Existe
<1> QED BY <1>0, <1>2, <1>3, <1>4 DEF Next

-----------------------------------------------------------------------------
(* Texts.                                                                   *)

(* What a save sends of a draft: the parts the report has. *)
Envoi(q) == [x \in Partie |-> IF x \in Parties(rapport.type) THEN q.brouillon[x] ELSE 0]

SansLesJours == (Existe /\ rapport.type = "GENERAL") => ecrit["jours"] = 0

(* As long as saves have not met, one at most has begun to write, and the    *)
(* report is what the last one sent, apart from the days it has still to     *)
(* write.                                                                   *)
UnSeulEcrit ==
    (Existe /\ incidents = 0 /\ ~enCours.melee) =>
        /\ \A a, d \in Place : Ecrit(a) /\ Ecrit(d) => a = d
        /\ ecrit["entete"] = enCours.envoi["entete"]
        /\ (\A a \in Place : ~Suivante(a, "ecrireJours")) => ecrit["jours"] = enCours.envoi["jours"]
        /\ \A a \in Place : Suivante(a, "ecrireJours") => enCours.envoi = Envoi(requetes[a])

(* The last save to begin, as long as none has met it: what it has written   *)
(* so far is what was sent.                                                 *)
Derniere(a) == Sauvegarde(a) /\ enCours.par = a
SienEcrit ==
    \A a \in Place : (Derniere(a) /\ Existe /\ ~enCours.melee) =>
        /\ \A d \in Place \ {a} : ~Ecrit(d)
        /\ ecrit["entete"] = requetes[a].brouillon["entete"]
        /\ (~Suivante(a, "ecrireJours") /\ rapport.type = "WEEKLY")
              => ecrit["jours"] = requetes[a].brouillon["jours"]

TextesInv == SansLesJours /\ UnSeulEcrit /\ SienEcrit

(* A request past the checks of a save, and what it is of. *)
LEMMA DUneSauvegarde ==
    ASSUME Types, NEW a \in Place, NEW i \in DeSauvegarde, Suivante(a, i)
    PROVE  /\ requetes[a].op \in {"enregistrer", "tardive"} /\ (Ecrit(a) <=> i # "ecrire")
           /\ requetes[a].brouillon \in [Partie -> Texte]
           /\ \/ /\ requetes[a].op = "enregistrer" /\ Avance(a, Passee(a))
                 /\ Head(Passee(a).reste) \in Suite[i]
                 /\ Passee(a).nouveaux = requetes[a].nouveaux
              \/ requetes[a].op = "tardive" /\ i \in Tard /\ Passee(a) = Libre
<1>1. /\ requetes[a].op \in {"enregistrer", "tardive"} /\ Head(requetes[a].reste) = i
      /\ requetes[a].op = "tardive" => i \in Tard /\ Len(requetes[a].reste) = 1
      /\ requetes[a].brouillon \in [Partie -> Texte]
  BY EnMain DEF Suivante, Conforme, Demandee
<1>4. Ecrit(a) <=> i # "ecrire"
  BY <1>1 DEF Ecrit, DeSauvegarde, EcritDesJours
<1>2. CASE requetes[a].op = "enregistrer"
  <2>1. Avance(a, Passee(a)) /\ Passee(a).nouveaux = requetes[a].nouveaux
    BY <1>2, Passage
  <2> QED BY <1>1, <1>2, <1>4, <2>1 DEF Avance
<1>3. CASE requetes[a].op = "tardive"
  BY <1>1, <1>3, <1>4 DEF Passee
<1> QED BY <1>1, <1>2, <1>3

(* A calm step keeps what is said of the texts. *)
LEMMA TextesAuCalme == Types /\ Types' /\ TextesInv /\ Calme => TextesInv'
<1> SUFFICES ASSUME Types, Types', TextesInv, Calme PROVE TextesInv'
  OBVIOUS
<1>1. SansLesJours'
  BY DEF Calme, TextesInv, SansLesJours
<1>2. UnSeulEcrit'
  <2> SUFFICES ASSUME Existe', incidents' = 0, ~enCours'.melee
               PROVE  /\ \A a, d \in Place : Ecrit(a)' /\ Ecrit(d)' => a = d
                      /\ ecrit'["entete"] = enCours'.envoi["entete"]
                      /\ (\A a \in Place : ~Suivante(a, "ecrireJours")') =>
                            ecrit'["jours"] = enCours'.envoi["jours"]
                      /\ \A a \in Place : Suivante(a, "ecrireJours")' =>
                            enCours'.envoi = Envoi(requetes[a])'
    BY DEF UnSeulEcrit
  <2>1. /\ Existe /\ incidents = 0 /\ ecrit' = ecrit /\ enCours' = enCours
        /\ rapport'.type = rapport.type /\ \A a \in Place : Tranquille(a)
    BY DEF Calme
  <2>2. /\ \A a, d \in Place : Ecrit(a) /\ Ecrit(d) => a = d
        /\ ecrit["entete"] = enCours.envoi["entete"]
        /\ (\A a \in Place : ~Suivante(a, "ecrireJours")) => ecrit["jours"] = enCours.envoi["jours"]
        /\ \A a \in Place : Suivante(a, "ecrireJours") => enCours.envoi = Envoi(requetes[a])
    BY <2>1 DEF TextesInv, UnSeulEcrit
  <2>3. \A a, d \in Place : Ecrit(a)' /\ Ecrit(d)' => a = d
    BY <2>1, <2>2 DEF Tranquille
  <2>4. (\A a \in Place : ~Suivante(a, "ecrireJours")') => ecrit'["jours"] = enCours'.envoi["jours"]
    BY <2>1, <2>2 DEF Tranquille
  <2>5. ASSUME NEW a \in Place, Suivante(a, "ecrireJours")'
        PROVE  enCours'.envoi = Envoi(requetes[a])'
    <3>1. Suivante(a, "ecrireJours") /\ requetes'[a].brouillon = requetes[a].brouillon
      BY <2>1, <2>5 DEF Tranquille
    <3> QED BY <2>1, <2>2, <3>1 DEF Envoi
  <2> QED BY <2>1, <2>2, <2>3, <2>4, <2>5
<1>3. SienEcrit'
  <2> SUFFICES ASSUME NEW a \in Place, Sauvegarde(a)', enCours'.par = a, Existe', ~enCours'.melee
               PROVE  /\ \A d \in Place \ {a} : ~Ecrit(d)'
                      /\ ecrit'["entete"] = requetes'[a].brouillon["entete"]
                      /\ (~Suivante(a, "ecrireJours")' /\ rapport'.type = "WEEKLY")
                            => ecrit'["jours"] = requetes'[a].brouillon["jours"]
    BY DEF SienEcrit, Derniere
  <2>1. /\ Existe /\ ecrit' = ecrit /\ enCours' = enCours
        /\ rapport'.type = rapport.type /\ \A d \in Place : Tranquille(d)
    BY DEF Calme
  <2>2. /\ Sauvegarde(a) /\ requetes'[a].brouillon = requetes[a].brouillon
        /\ Suivante(a, "ecrireJours")' <=> Suivante(a, "ecrireJours")
    BY <2>1 DEF Tranquille
  <2>3. /\ \A d \in Place \ {a} : ~Ecrit(d)
        /\ ecrit["entete"] = requetes[a].brouillon["entete"]
        /\ (~Suivante(a, "ecrireJours") /\ rapport.type = "WEEKLY")
              => ecrit["jours"] = requetes[a].brouillon["jours"]
    BY <2>1, <2>2 DEF TextesInv, SienEcrit, Derniere
  <2>4. \A d \in Place \ {a} : ~Ecrit(d)'
    BY <2>1, <2>3 DEF Tranquille
  <2> QED BY <2>1, <2>2, <2>3, <2>4
<1> QED BY <1>1, <1>2, <1>3 DEF TextesInv

(* The first statement of a save. *)
LEMMA TextesEcrire ==
    ASSUME Types, TextesInv, NEW a \in Place, Ecrire(a)
    PROVE  TextesInv'
<1> DEFINE q == Passee(a)
           b == requetes[a].brouillon
<1>1. /\ Suivante(a, "ecrire") /\ Existe /\ rapport' = rapport /\ incidents' = incidents
      /\ ecrit' = [ecrit EXCEPT !["entete"] = b["entete"]]
      /\ enCours' = [envoi |-> Envoi(requetes[a]), melee |-> \E d \in Place : Ecrit(d), par |-> a]
      /\ requetes' = [requetes EXCEPT ![a] = q]
  BY DEF Ecrire, Envoi, Passer, Page
<1>2. /\ ~Ecrit(a) /\ b \in [Partie -> Texte] /\ q.op = "enregistrer"
      /\ q.brouillon = b /\ Head(q.reste) = "ecrireJours"
  <2>1. "ecrire" \in DeSauvegarde /\ Suite["ecrire"] = {"ecrireJours"} /\ "ecrire" \notin Tard
    BY DEF DeSauvegarde, Suite, Tard
  <2> QED BY <1>1, <2>1, DUneSauvegarde DEF Avance
<1>3. requetes'[a] = q /\ \A d \in Place \ {a} : requetes'[d] = requetes[d]
  BY <1>1 DEF Types
<1>4. ecrit'["entete"] = b["entete"] /\ ecrit'["jours"] = ecrit["jours"]
  BY <1>1 DEF Types, Partie
<1>5. Existe' /\ Suivante(a, "ecrireJours")' /\ \A d \in Place \ {a} : Ecrit(d)' <=> Ecrit(d)
  BY <1>1, <1>2, <1>3 DEF Suivante, Occupee, Ecrit, Existe
<1>6. enCours'.envoi = Envoi(requetes[a]) /\ enCours'.melee = (\E d \in Place : Ecrit(d))
      /\ enCours'.par = a
  BY <1>1
<1>7. Envoi(requetes[a])["entete"] = b["entete"] /\ Envoi(requetes[a])' = Envoi(requetes[a])
  <2>1. "entete" \in Partie /\ "entete" \in Parties(rapport.type)
    BY DEF Partie, Parties
  <2> QED BY <1>1, <1>2, <1>3, <2>1 DEF Envoi
<1> HIDE DEF q, b
<1>8. SansLesJours'
  BY <1>1, <1>4 DEF TextesInv, SansLesJours
<1>9. UnSeulEcrit'
  <2> SUFFICES ASSUME ~enCours'.melee
               PROVE  /\ \A d, w \in Place : Ecrit(d)' /\ Ecrit(w)' => d = w
                      /\ ecrit'["entete"] = enCours'.envoi["entete"]
                      /\ (\A d \in Place : ~Suivante(d, "ecrireJours")') =>
                            ecrit'["jours"] = enCours'.envoi["jours"]
                      /\ \A d \in Place : Suivante(d, "ecrireJours")' =>
                            enCours'.envoi = Envoi(requetes[d])'
    BY DEF UnSeulEcrit
  <2>1. \A d \in Place : ~Ecrit(d)
    BY <1>6
  <2>2. \A d, w \in Place : Ecrit(d)' /\ Ecrit(w)' => d = w
    BY <2>1, <1>5
  <2>3. ASSUME NEW d \in Place, Suivante(d, "ecrireJours")' PROVE d = a
    <3>1. ASSUME d # a PROVE FALSE
      <4>1. Suivante(d, "ecrireJours")
        BY <1>3, <2>3, <3>1 DEF Suivante, Occupee
      <4>2. "ecrireJours" \in DeSauvegarde /\ "ecrireJours" # "ecrire"
        BY DEF DeSauvegarde, EcritDesJours
      <4>3. Ecrit(d)
        BY <4>1, <4>2, DUneSauvegarde
      <4> QED BY <2>1, <4>3
    <3> QED BY <3>1
  <2> QED BY <1>4, <1>5, <1>6, <1>7, <2>2, <2>3
<1>10. SienEcrit'
  <2> SUFFICES ASSUME NEW d \in Place, enCours'.par = d, ~enCours'.melee
               PROVE  /\ \A w \in Place \ {d} : ~Ecrit(w)'
                      /\ ecrit'["entete"] = requetes'[d].brouillon["entete"]
                      /\ (~Suivante(d, "ecrireJours")' /\ rapport'.type = "WEEKLY")
                            => ecrit'["jours"] = requetes'[d].brouillon["jours"]
    BY DEF SienEcrit, Derniere
  <2>1. d = a /\ \A w \in Place : ~Ecrit(w)
    BY <1>6
  <2> QED BY <1>2, <1>3, <1>4, <1>5, <2>1
<1> QED BY <1>8, <1>9, <1>10 DEF TextesInv

(* The second one, which waits for every day. *)
LEMMA TextesEcrireJours ==
    ASSUME Types, TextesInv, NEW a \in Place, EcrireJours(a)
    PROVE  TextesInv'
<1> DEFINE q == Passee(a)
           b == requetes[a].brouillon
<1>1. /\ Suivante(a, "ecrireJours") /\ rapport' = rapport /\ incidents' = incidents
      /\ ecrit' = [x \in Partie |-> IF x \in LignesDesJours THEN b[x] ELSE ecrit[x]]
      /\ enCours' = [enCours EXCEPT !.melee = @ \/ SansJours \/ \E d \in Place \ {a} : Ecrit(d)]
      /\ requetes' = [requetes EXCEPT ![a] = q]
  BY DEF EcrireJours, Passer, Page
<1>2. /\ Ecrit(a) /\ b \in [Partie -> Texte]
      /\ \/ /\ q.op = "enregistrer" /\ q.brouillon = b /\ Head(q.reste) = "lireMentions"
            /\ requetes[a].op = "enregistrer"
         \/ q = Libre
  <2>1. "ecrireJours" \in DeSauvegarde /\ Suite["ecrireJours"] = {"lireMentions"}
        /\ "ecrireJours" # "ecrire"
    BY DEF DeSauvegarde, EcritDesJours, Suite
  <2> QED BY <1>1, <2>1, DUneSauvegarde DEF Avance
<1>3. requetes'[a] = q /\ \A d \in Place \ {a} : requetes'[d] = requetes[d]
  BY <1>1 DEF Types
<1>4. ecrit'["entete"] = ecrit["entete"]
      /\ ecrit'["jours"] = IF "jours" \in LignesDesJours THEN b["jours"] ELSE ecrit["jours"]
  <2>1. "entete" \in Partie /\ "jours" \in Partie /\ "entete" \notin LignesDesJours
    BY DEF Partie, LignesDesJours
  <2> QED BY <1>1, <2>1
<1>5. /\ ~Suivante(a, "ecrireJours")' /\ (q = Libre => ~Sauvegarde(a)')
      /\ \A d \in Place \ {a} : /\ Ecrit(d)' <=> Ecrit(d)
                                /\ Sauvegarde(d)' <=> Sauvegarde(d)
                                /\ Suivante(d, "ecrireJours")' <=> Suivante(d, "ecrireJours")
  BY <1>2, <1>3, LibreEstType DEF Suivante, Occupee, Ecrit, Sauvegarde
<1>6. /\ enCours'.envoi = enCours.envoi /\ enCours'.par = enCours.par
      /\ enCours'.melee = (enCours.melee \/ SansJours \/ \E d \in Place \ {a} : Ecrit(d))
  BY <1>1 DEF Types, UnEnvoi
<1>7. \A d \in Place : Suivante(d, "ecrireJours") => Ecrit(d)
  <2>1. "ecrireJours" \in DeSauvegarde /\ "ecrireJours" # "ecrire"
    BY DEF DeSauvegarde, EcritDesJours
  <2> QED BY <2>1, DUneSauvegarde
<1>8. ASSUME Existe
      PROVE  \/ rapport.type = "GENERAL" /\ "jours" \notin LignesDesJours
                /\ "jours" \notin Parties(rapport.type)
             \/ rapport.type = "WEEKLY" /\ "jours" \in Parties(rapport.type)
                /\ (~SansJours => "jours" \in LignesDesJours)
  <2>1. rapport \in UnRapport
    BY <1>8 DEF Types, Existe
  <2>2. rapport.type \in {"GENERAL", "WEEKLY"}
    BY <2>1 DEF UnRapport, TypeRapport
  <2> QED BY <1>8, <2>2 DEF LignesDesJours, Parties, Partie, SansJours
<1> HIDE DEF q, b
<1>9. SansLesJours'
  BY <1>1, <1>4, <1>8 DEF TextesInv, SansLesJours, Existe
<1>10. UnSeulEcrit'
  <2> SUFFICES ASSUME Existe', incidents' = 0, ~enCours'.melee
               PROVE  /\ \A d, w \in Place : Ecrit(d)' /\ Ecrit(w)' => d = w
                      /\ ecrit'["entete"] = enCours'.envoi["entete"]
                      /\ (\A d \in Place : ~Suivante(d, "ecrireJours")') =>
                            ecrit'["jours"] = enCours'.envoi["jours"]
                      /\ \A d \in Place : Suivante(d, "ecrireJours")' =>
                            enCours'.envoi = Envoi(requetes[d])'
    BY DEF UnSeulEcrit
  <2>1. Existe /\ incidents = 0 /\ ~enCours.melee /\ ~SansJours
        /\ \A d \in Place \ {a} : ~Ecrit(d)
    BY <1>1, <1>6 DEF Existe
  <2>2. ecrit["entete"] = enCours.envoi["entete"] /\ enCours.envoi = Envoi(requetes[a])
    BY <1>1, <2>1 DEF TextesInv, UnSeulEcrit
  <2>3. ecrit'["jours"] = enCours'.envoi["jours"]
    <3>1. Envoi(requetes[a])["jours"] =
             IF "jours" \in Parties(rapport.type) THEN b["jours"] ELSE 0
      BY DEF Envoi, Partie, b
    <3> QED BY <1>4, <1>6, <1>8, <2>1, <2>2, <3>1 DEF TextesInv, SansLesJours
  <2>4. \A d \in Place : ~Suivante(d, "ecrireJours")'
    BY <1>5, <1>7, <2>1
  <2>5. \A d, w \in Place : Ecrit(d)' /\ Ecrit(w)' => d = w
    BY <1>5, <2>1
  <2> QED BY <1>4, <1>6, <2>2, <2>3, <2>4, <2>5
<1>11. SienEcrit'
  <2> SUFFICES ASSUME NEW d \in Place, Sauvegarde(d)', enCours'.par = d, Existe', ~enCours'.melee
               PROVE  /\ \A w \in Place \ {d} : ~Ecrit(w)'
                      /\ ecrit'["entete"] = requetes'[d].brouillon["entete"]
                      /\ (~Suivante(d, "ecrireJours")' /\ rapport'.type = "WEEKLY")
                            => ecrit'["jours"] = requetes'[d].brouillon["jours"]
    BY DEF SienEcrit, Derniere
  <2>1. Existe /\ ~enCours.melee /\ ~SansJours /\ enCours.par = d
        /\ \A w \in Place \ {a} : ~Ecrit(w)
    BY <1>1, <1>6 DEF Existe
  <2>2. Sauvegarde(d) /\ (d = a => q # Libre)
    BY <1>2, <1>5 DEF Sauvegarde
  <2>3. /\ \A w \in Place \ {d} : ~Ecrit(w)
        /\ ecrit["entete"] = requetes[d].brouillon["entete"]
    BY <2>1, <2>2 DEF TextesInv, SienEcrit, Derniere
  <2>4. d = a
    BY <1>2, <2>3
  <2>5. requetes'[d].brouillon = b /\ requetes[d].brouillon = b
    BY <1>2, <1>3, <2>2, <2>4 DEF b
  <2>6. rapport'.type = "WEEKLY" => ecrit'["jours"] = b["jours"]
    BY <1>1, <1>4, <1>8, <2>1
  <2> QED BY <1>4, <1>5, <2>1, <2>3, <2>4, <2>5, <2>6
<1> QED BY <1>9, <1>10, <1>11 DEF TextesInv

(* The creation of the report. *)
LEMMA TextesCreer ==
    ASSUME Types, Vierge, NEW a \in Place, Creer(a)
    PROVE  TextesInv'
<1>1. Suivante(a, "creer") /\ ecrit' = ecrit /\ enCours' = enCours /\ Passer(a)
  BY DEF Creer, histoire
<1>2. /\ ecrit = [x \in Partie |-> 0] /\ enCours.envoi = [x \in Partie |-> 0]
      /\ \A d \in Place \ {a} : ~Occupee(d)
  BY <1>1 DEF Vierge, Initiale
<1>3. ASSUME NEW d \in Place
      PROVE  ~Ecrit(d)' /\ ~Sauvegarde(d)' /\ ~Suivante(d, "ecrireJours")'
  <2>1. requetes[a].op \in {"creerGENERAL", "creerWEEKLY"}
    BY <1>1, EnMain DEF Suivante, Conforme
  <2>2. requetes'[d].op \in {"creerGENERAL", "creerWEEKLY", "aucune"}
    <3>1. CASE d = a
      <4>1. requetes'[a] = Passee(a)
        BY <1>1 DEF Passer, Types
      <4> QED BY <1>1, <2>1, <3>1, <4>1, Passage, LibreEstType DEF Avance
    <3>2. CASE d # a
      BY <1>1, <1>2, <3>2 DEF Passer, Types, Occupee
    <3> QED BY <3>1, <3>2
  <2>3. ~Suivante(d, "ecrireJours")'
    <3>1. CASE d = a
      <4>1. requetes'[a] = Passee(a) /\ Suite["creer"] = {"creerJours"}
        BY <1>1 DEF Passer, Types, Suite
      <4>2. Passee(a) = Libre \/ Head(Passee(a).reste) = "creerJours"
        BY <1>1, <4>1, Passage DEF Avance, Suivante
      <4> QED BY <3>1, <4>1, <4>2, LibreEstType DEF Suivante, Occupee
    <3>2. CASE d # a
      BY <1>1, <1>2, <3>2 DEF Passer, Types, Occupee, Suivante
    <3> QED BY <3>1, <3>2
  <2> QED BY <2>2, <2>3 DEF Ecrit, Sauvegarde
<1>4. ecrit'["jours"] = 0 /\ ecrit'["entete"] = 0 /\ enCours'.envoi["jours"] = 0
      /\ enCours'.envoi["entete"] = 0
  BY <1>1, <1>2 DEF Partie
<1> QED BY <1>3, <1>4 DEF TextesInv, SansLesJours, UnSeulEcrit, SienEcrit, Derniere

(* What is said of the texts is always so. *)
LEMMA TextesToujours == Spec => []TextesInv
<1>1. Init => TextesInv
  <2> SUFFICES ASSUME Init PROVE TextesInv
    OBVIOUS
  <2>1. ~Existe /\ \A a \in Place : ~Sauvegarde(a)
    BY LibreEstType, LesRestes DEF Init, Existe, Sauvegarde
  <2> QED BY <2>1 DEF TextesInv, SansLesJours, UnSeulEcrit, SienEcrit, Derniere
<1>2. Types /\ Types' /\ Vierge /\ TextesInv /\ [Next]_vars => TextesInv'
  BY PasCalmes, TextesAuCalme, TextesCreer, TextesEcrire, TextesEcrireJours
<1> QED BY <1>1, <1>2, TypesToujours, ViergeCorrect, PTL DEF Spec

(* With no save under way the report is, part for part, what the last save   *)
(* to begin sent, unless two saves overlapped, a statement failed or the     *)
(* days had not been created (RapportsService.update).                      *)
THEOREM UnSeulEnregistrementCorrect == Spec => []UnSeulEnregistrement
<1>1. Types /\ TextesInv => UnSeulEnregistrement
  <2> SUFFICES ASSUME Types, TextesInv, Existe, incidents = 0, ~enCours.melee,
                      \A a \in Place : ~Ecrit(a)
               PROVE  ecrit = enCours.envoi
    BY DEF UnSeulEnregistrement
  <2>1. "ecrireJours" \in DeSauvegarde /\ "ecrireJours" # "ecrire"
    BY DEF DeSauvegarde, EcritDesJours
  <2>2. \A a \in Place : ~Suivante(a, "ecrireJours")
    BY <2>1, DUneSauvegarde
  <2>3. ecrit["entete"] = enCours.envoi["entete"] /\ ecrit["jours"] = enCours.envoi["jours"]
    BY <2>2 DEF TextesInv, UnSeulEcrit
  <2>4. ecrit \in [Partie -> Texte] /\ enCours.envoi \in [Partie -> Texte]
    BY DEF Types, UnEnvoi
  <2> QED BY <2>3, <2>4 DEF Partie
<1> QED BY <1>1, TypesToujours, TextesToujours, PTL

(* "Report saved" is only said of a text that is written: at that moment the *)
(* report is, part for part, what was sent, unless another save has begun    *)
(* since or met this one, or the days were not there (update, the page's     *)
(* handleSave).                                                             *)
THEOREM ConfirmeEcritCorrect == Spec => []ConfirmeEcrit
<1>1. Types /\ TextesInv => ConfirmeEcrit
  <2> SUFFICES ASSUME Types, TextesInv, NEW a \in Place, Suivante(a, "charger"),
                      requetes[a].op = "enregistrer", Existe, ~enCours.melee, enCours.par = a,
                      NEW x \in Parties(rapport.type)
               PROVE  ecrit[x] = requetes[a].brouillon[x]
    BY DEF ConfirmeEcrit
  <2>1. Derniere(a) /\ ~Suivante(a, "ecrireJours")
    BY DEF Derniere, Sauvegarde, Suivante
  <2>2. /\ ecrit["entete"] = requetes[a].brouillon["entete"]
        /\ rapport.type = "WEEKLY" => ecrit["jours"] = requetes[a].brouillon["jours"]
    BY <2>1 DEF TextesInv, SienEcrit
  <2> QED BY <2>2 DEF Parties, Partie
<1> QED BY <1>1, TypesToujours, TextesToujours, PTL

-----------------------------------------------------------------------------
(* Mentions.                                                                *)

(* The requests that have added a mention of this person, who is not their   *)
(* author, and have still to tell him.                                      *)
Attendus(v) == {a \in Place : Suivante(a, "annoncer") /\ v \in Prevenus(a)}

(* What has been added has been told, or is still to be: by its request,     *)
(* unless it failed or the report has gone.                                 *)
MentionsInv ==
    \A v \in User :
        /\ annonces[v] + Cardinality(Attendus(v)) <= ajouts[v]
        /\ (incidents = 0 /\ Existe) => annonces[v] + Cardinality(Attendus(v)) = ajouts[v]

(* Which steps say something of mentions: adding, telling, and the creation. *)
LEMMA PasMuettes ==
    ASSUME Types, [Next]_vars
    PROVE  Muette \/ \E a \in Place : Creer(a) \/ Ajouter(a) \/ Annoncer(a)
<1>0. ASSUME UNCHANGED vars PROVE Muette
  BY <1>0, Ailleurs DEF vars, base, histoire, Muette, Existe
<1>1. ASSUME NEW a \in Place, NEW i, i \notin {"ajouter", "annoncer"},
             Suivante(a, i), Passer(a)
      PROVE  \A d \in Place : Muet(d)
  <2>1. requetes'[a] = Passee(a) /\ \A d \in Place \ {a} : requetes'[d] = requetes[d]
    BY <1>1 DEF Passer, Types
  <2>2. Muet(a)
    <3>1. Head(requetes[a].reste) = i
      BY <1>1 DEF Suivante
    <3>2. CASE Passee(a) = Libre
      BY <1>1, <2>1, <3>1, <3>2, FinOuDebut DEF Suivante
    <3>3. CASE Avance(a, Passee(a)) /\ Passee(a).nouveaux = requetes[a].nouveaux
      BY <1>1, <2>1, <3>1, <3>3, Ensuite
    <3> QED BY <1>1, <3>2, <3>3, Passage
  <2> QED BY <2>1, <2>2, Ailleurs
<1>2. ASSUME NEW a \in Place, Statement(a), ~Creer(a), ~Ajouter(a), ~Annoncer(a) PROVE Muette
  <2>1. CASE CreerJours(a) \/ Verifier(a) \/ Ecrire(a) \/ EcrireJours(a) \/ Retirer(a)
             \/ Relire(a) \/ Charger(a)
    <3>1. \A d \in Place : Muet(d)
      BY <2>1, <1>1 DEF CreerJours, Verifier, Ecrire, EcrireJours, Retirer, Relire, Charger
    <3> QED BY <2>1, <3>1 DEF Muette, CreerJours, Verifier, Ecrire, EcrireJours, Retirer, Relire,
            Charger, Page, base, histoire, Existe
  <2>2. CASE LireMentions(a)
    <3>1. PICK q : Avance(a, q) /\ Devient(a, q)
      BY <2>2, Lecture
    <3>2. Head(requetes[a].reste) = "lireMentions" /\ requetes'[a] = q
          /\ \A d \in Place \ {a} : requetes'[d] = requetes[d]
      BY <2>2, <3>1 DEF LireMentions, Suivante, Devient, Types
    <3>3. \A d \in Place : Muet(d)
      BY <3>1, <3>2, Ensuite, Ailleurs
    <3> QED BY <2>2, <3>3 DEF Muette, LireMentions, Page, base, histoire, Existe
  <2>3. CASE Basculer(a) \/ Supprimer(a)
    <3>1. \A d \in Place : Muet(d)
      BY <2>3, <1>1 DEF Basculer, Supprimer
    <3> QED BY <2>3, <3>1 DEF Muette, Basculer, Supprimer, Page, histoire
  <2>4. CASE Refuser(a)
    <3>1. requetes'[a] = Libre /\ \A d \in Place \ {a} : requetes'[d] = requetes[d]
      BY <2>4 DEF Refuser, Types
    <3>2. Suivante(a, "annoncer") => ~Existe'
      BY <2>4 DEF Refuser, Refusee, Suivante, SansNom, base, Existe
    <3>3. \A d \in Place : Muet(d)
      BY <3>1, <3>2, FinOuDebut, Ailleurs
    <3> QED BY <2>4, <3>3 DEF Muette, Refuser, Page, base, histoire, Existe
  <2> QED BY <1>2, <2>1, <2>2, <2>3, <2>4 DEF Statement
<1>3. ASSUME NEW u \in User, Edition(u) PROVE Muette
  <2>1. requetes' = requetes \/ Delaissees \/ \E a \in Place : \E q : Debute(a, q) /\ Devient(a, q)
    BY <1>3, DeLaPage
  <2>2. \A d \in Place : Muet(d)
    <3>1. ASSUME requetes' = requetes \/ Delaissees PROVE \A d \in Place : Muet(d)
      BY <3>1, Ailleurs DEF Delaissees
    <3>2. ASSUME NEW a \in Place, NEW q, Debute(a, q), Devient(a, q)
          PROVE  \A d \in Place : Muet(d)
      <4>1. requetes'[a] = q /\ \A d \in Place \ {a} : requetes'[d] = requetes[d]
        BY <3>2 DEF Devient, Types
      <4> QED BY <3>2, <4>1, FinOuDebut, Ailleurs
    <3> QED BY <2>1, <3>1, <3>2
  <2>3. UNCHANGED <<base, incidents, histoire>>
    BY <1>3 DEF Edition, Demander, Editer, Taper, Citer, Annuler, Quitter
  <2> QED BY <2>2, <2>3 DEF Muette, base, histoire, Existe
<1>4. ASSUME Arret \/ \E a \in Place : Echouer(a) PROVE Muette
  <2>1. incidents' # 0 /\ UNCHANGED <<base, histoire>>
    BY <1>4 DEF Arret, Echouer, Types
  <2>2. ASSUME NEW d \in Place PROVE Muet(d)
    <3>1. CASE Arret
      <4>1. requetes'[d] = Libre
        BY <3>1 DEF Arret
      <4> QED BY <2>1, <4>1, FinOuDebut
    <3>2. ASSUME NEW a \in Place, Echouer(a) PROVE Muet(d)
      <4>1. PICK q : Devient(a, q) /\ (q = Libre \/ Retarde(a, q))
        BY <3>2, Echec
      <4>2. requetes'[a] = q /\ \A e \in Place \ {a} : requetes'[e] = requetes[e]
        BY <4>1 DEF Devient, Types
      <4> QED BY <2>1, <4>1, <4>2, FinOuDebut, EnRetard, Ailleurs
    <3> QED BY <1>4, <3>1, <3>2
  <2> QED BY <2>1, <2>2 DEF Muette, base, histoire, Existe
<1> QED BY <1>0, <1>2, <1>3, <1>4 DEF Next

(* The requests that have still to tell can be counted. *)
LEMMA Comptables ==
    ASSUME NEW v \in User
    PROVE  /\ Attendus(v) \subseteq Place /\ IsFiniteSet(Attendus(v))
           /\ Cardinality(Attendus(v)) \in Nat
BY RapportsAssumption, FS_Subset, FS_CardinalityType DEF Attendus

(* A step without a word on mentions. *)
LEMMA MentionsMuettes ==
    ASSUME Types, MentionsInv, Muette PROVE MentionsInv'
<1> SUFFICES ASSUME NEW v \in User
             PROVE  /\ annonces'[v] + Cardinality(Attendus(v)') <= ajouts'[v]
                    /\ (incidents' = 0 /\ Existe') =>
                          annonces'[v] + Cardinality(Attendus(v)') = ajouts'[v]
  BY DEF MentionsInv
<1>1. Attendus(v)' \subseteq Attendus(v)
  BY DEF Attendus, Muette, Muet, Prevenus
<1>2. (incidents' = 0 /\ Existe') => Attendus(v)' = Attendus(v)
  BY DEF Attendus, Muette, Muet, Prevenus
<1>3. Cardinality(Attendus(v)') \in Nat /\ Cardinality(Attendus(v)') <= Cardinality(Attendus(v))
      /\ Cardinality(Attendus(v)) \in Nat
  <2>1. IsFiniteSet(Attendus(v)) /\ Cardinality(Attendus(v)) \in Nat
    BY Comptables
  <2>2. IsFiniteSet(Attendus(v)') /\ Cardinality(Attendus(v)') <= Cardinality(Attendus(v))
    BY <1>1, <2>1, FS_Subset
  <2> QED BY <2>1, <2>2, FS_CardinalityType
<1>4. annonces[v] \in Nat /\ ajouts[v] \in Nat
  BY DEF Types
<1>5. annonces' = annonces /\ ajouts' = ajouts
      /\ ((incidents' = 0 /\ Existe') => incidents = 0 /\ Existe)
  BY DEF Muette
<1>6. /\ annonces[v] + Cardinality(Attendus(v)) <= ajouts[v]
      /\ (incidents = 0 /\ Existe) => annonces[v] + Cardinality(Attendus(v)) = ajouts[v]
  BY DEF MentionsInv
<1> QED BY <1>2, <1>3, <1>4, <1>5, <1>6

(* The mentions are added, and the request is to tell them. *)
LEMMA MentionsAjouter ==
    ASSUME Types, MentionsInv, NEW a \in Place, Ajouter(a) PROVE MentionsInv'
<1> SUFFICES ASSUME NEW v \in User
             PROVE  /\ annonces'[v] + Cardinality(Attendus(v)') <= ajouts'[v]
                    /\ (incidents' = 0 /\ Existe') =>
                          annonces'[v] + Cardinality(Attendus(v)') = ajouts'[v]
  BY DEF MentionsInv
<1> DEFINE n == Prevenus(a)
           A == Attendus(v)
<1>1. /\ Suivante(a, "ajouter") /\ Passer(a) /\ annonces' = annonces
      /\ incidents' = incidents /\ rapport' = rapport
      /\ ajouts'[v] = ajouts[v] + (IF v \in n THEN 1 ELSE 0)
  BY DEF Ajouter, Page
<1>2. requetes'[a].op # "aucune" /\ Head(requetes'[a].reste) = "annoncer"
      /\ Prevenus(a)' = n
      /\ \A w \in Place \ {a} : requetes'[w] = requetes[w]
  <2>1. "ajouter" \in DeSauvegarde /\ Suite["ajouter"] = {"annoncer"} /\ "ajouter" \notin Tard
    BY DEF DeSauvegarde, EcritDesJours, Suite, Tard
  <2>2. requetes'[a] = Passee(a)
    BY <1>1 DEF Passer, Types
  <2> QED BY <1>1, <2>1, <2>2, DUneSauvegarde, LibreEstType DEF Avance, Passer, Types, Prevenus, Auteur, Occupee
<1>3. a \notin A
  BY <1>1 DEF Attendus, Suivante
<1>4. A' = IF v \in n THEN A \cup {a} ELSE A
  BY <1>2, <1>3 DEF Attendus, Suivante, Occupee, Prevenus, Auteur
<1>5. IsFiniteSet(A) /\ Cardinality(A) \in Nat
  BY Comptables
<1> HIDE DEF A
<1>6. Cardinality(A \cup {a}) = Cardinality(A) + 1
  BY <1>3, <1>5, FS_AddElement
<1>7. annonces[v] \in Nat /\ ajouts[v] \in Nat
      /\ annonces[v] + Cardinality(A) <= ajouts[v]
      /\ ((incidents = 0 /\ Existe) => annonces[v] + Cardinality(A) = ajouts[v])
  BY DEF MentionsInv, Types, A
<1>8. Existe' <=> Existe
  BY <1>1 DEF Existe
<1>9. /\ annonces'[v] + Cardinality(A') <= ajouts'[v]
      /\ (incidents' = 0 /\ Existe') => annonces'[v] + Cardinality(A') = ajouts'[v]
  <2> HIDE DEF n
  <2>1. CASE v \in n
    BY <2>1, <1>1, <1>4, <1>5, <1>6, <1>7, <1>8
  <2>2. CASE v \notin n
    BY <2>2, <1>1, <1>4, <1>5, <1>7, <1>8
  <2> QED BY <2>1, <2>2
<1> QED BY <1>9 DEF A

(* They are told. *)
LEMMA MentionsAnnoncer ==
    ASSUME Types, MentionsInv, NEW a \in Place, Annoncer(a) PROVE MentionsInv'
<1> SUFFICES ASSUME NEW v \in User
             PROVE  /\ annonces'[v] + Cardinality(Attendus(v)') <= ajouts'[v]
                    /\ (incidents' = 0 /\ Existe') =>
                          annonces'[v] + Cardinality(Attendus(v)') = ajouts'[v]
  BY DEF MentionsInv
<1> DEFINE n == Prevenus(a)
           A == Attendus(v)
<1>1. /\ Suivante(a, "annoncer") /\ Passer(a) /\ ajouts' = ajouts
      /\ incidents' = incidents /\ rapport' = rapport
      /\ annonces'[v] = annonces[v] + (IF v \in n THEN 1 ELSE 0)
  BY DEF Annoncer, Page, histoire
<1>2. ~Suivante(a, "annoncer")'
      /\ \A w \in Place \ {a} : requetes'[w] = requetes[w]
  <2>1. "annoncer" \in DeSauvegarde /\ Suite["annoncer"] = {"relire"}
    BY DEF DeSauvegarde, EcritDesJours, Suite
  <2>2. requetes'[a] = Passee(a)
    BY <1>1 DEF Passer, Types
  <2> QED BY <1>1, <2>1, <2>2, DUneSauvegarde, LibreEstType DEF Avance, Passer, Types, Suivante, Occupee
<1>3. a \in A <=> v \in n
  BY <1>1 DEF Attendus
<1>4. A' = A \ {a}
  BY <1>2 DEF Attendus, Suivante, Occupee, Prevenus, Auteur
<1>5. IsFiniteSet(A) /\ Cardinality(A) \in Nat
  BY Comptables
<1> HIDE DEF A
<1>6. a \in A => Cardinality(A \ {a}) = Cardinality(A) - 1
  BY <1>5, FS_RemoveElement
<1>7. annonces[v] \in Nat /\ ajouts[v] \in Nat
      /\ annonces[v] + Cardinality(A) <= ajouts[v]
      /\ ((incidents = 0 /\ Existe) => annonces[v] + Cardinality(A) = ajouts[v])
  BY DEF MentionsInv, Types, A
<1>8. Existe' <=> Existe
  BY <1>1 DEF Existe
<1>9. /\ annonces'[v] + Cardinality(A') <= ajouts'[v]
      /\ (incidents' = 0 /\ Existe') => annonces'[v] + Cardinality(A') = ajouts'[v]
  <2> HIDE DEF n
  <2>1. CASE a \in A
    BY <2>1, <1>1, <1>3, <1>4, <1>5, <1>6, <1>7, <1>8
  <2>2. CASE a \notin A
    <3>1. A' = A
      BY <2>2, <1>4
    <3> QED BY <2>2, <3>1, <1>1, <1>3, <1>5, <1>7, <1>8
  <2> QED BY <2>1, <2>2
<1> QED BY <1>9 DEF A

(* The creation, before which there was none. *)
LEMMA MentionsCreer ==
    ASSUME Types, Vierge, NEW a \in Place, Creer(a) PROVE MentionsInv'
<1>1. Suivante(a, "creer") /\ annonces' = annonces /\ ajouts' = ajouts /\ Passer(a)
  BY DEF Creer, histoire
<1>2. annonces = ajouts /\ \A d \in Place \ {a} : ~Occupee(d)
  BY <1>1 DEF Vierge, Initiale
<1>3. ASSUME NEW w \in Place PROVE ~Suivante(w, "annoncer")'
  <2>1. CASE w = a
    <3>1. requetes'[a] = Passee(a) /\ Suite["creer"] = {"creerJours"}
      BY <1>1 DEF Passer, Types, Suite
    <3>2. Passee(a) = Libre \/ Head(Passee(a).reste) = "creerJours"
      BY <1>1, <3>1, Passage DEF Avance, Suivante
    <3> QED BY <2>1, <3>1, <3>2, LibreEstType DEF Suivante, Occupee
  <2>2. CASE w # a
    BY <1>1, <1>2, <2>2 DEF Passer, Types, Occupee, Suivante
  <2> QED BY <2>1, <2>2
<1>4. \A v \in User : Attendus(v)' = {}
  BY <1>3 DEF Attendus
<1>5. Cardinality({}) = 0
  BY FS_EmptySet
<1>6. \A v \in User : annonces'[v] + Cardinality(Attendus(v)') = ajouts'[v] /\ ajouts'[v] \in Nat
  <2> SUFFICES ASSUME NEW v \in User
               PROVE  annonces'[v] + Cardinality(Attendus(v)') = ajouts'[v] /\ ajouts'[v] \in Nat
    OBVIOUS
  <2>1. Cardinality(Attendus(v)') = 0
    BY <1>4, <1>5
  <2>2. ajouts[v] \in Nat /\ annonces'[v] = ajouts[v] /\ ajouts'[v] = ajouts[v]
    BY <1>1, <1>2 DEF Types
  <2> HIDE DEF Attendus
  <2> QED BY <2>1, <2>2
<1> QED BY <1>6 DEF MentionsInv

(* Whoever is newly mentioned by somebody else is told once, however many    *)
(* saves repeat the mention or add it at the same time (syncMentions).      *)
THEOREM MentionAnnonceeCorrect == Spec => []MentionAnnoncee
<1>1. Init => MentionsInv
  <2> SUFFICES ASSUME Init, NEW v \in User
               PROVE  annonces[v] + Cardinality(Attendus(v)) = ajouts[v] /\ ajouts[v] \in Nat
    BY DEF MentionsInv
  <2>1. Attendus(v) = {}
    BY LibreEstType DEF Init, Attendus, Suivante, Occupee
  <2>2. Cardinality({}) = 0
    BY FS_EmptySet
  <2> QED BY <2>1, <2>2 DEF Init
<1>2. Types /\ Vierge /\ MentionsInv /\ [Next]_vars => MentionsInv'
  BY PasMuettes, MentionsMuettes, MentionsAjouter, MentionsAnnoncer, MentionsCreer
<1>3. Types /\ MentionsInv => MentionAnnoncee
  <2> SUFFICES ASSUME Types, MentionsInv, NEW u \in User
               PROVE  /\ annonces[u] <= ajouts[u]
                      /\ (incidents = 0 /\ Existe /\ \A a \in Place : ~Suivante(a, "annoncer"))
                            => annonces[u] = ajouts[u]
    BY DEF MentionAnnoncee
  <2>1. Cardinality(Attendus(u)) \in Nat /\ annonces[u] \in Nat /\ ajouts[u] \in Nat
    BY Comptables DEF Types
  <2>2. (\A a \in Place : ~Suivante(a, "annoncer")) => Cardinality(Attendus(u)) = 0
    <3>1. (\A a \in Place : ~Suivante(a, "annoncer")) => Attendus(u) = {}
      BY DEF Attendus
    <3> QED BY <3>1, FS_EmptySet
  <2>3. /\ annonces[u] + Cardinality(Attendus(u)) <= ajouts[u]
        /\ (incidents = 0 /\ Existe) => annonces[u] + Cardinality(Attendus(u)) = ajouts[u]
    BY DEF MentionsInv
  <2> QED BY <2>1, <2>2, <2>3
<1> QED BY <1>1, <1>2, <1>3, TypesToujours, ViergeCorrect, PTL DEF Spec

=============================================================================
