---------------------------- MODULE OrganizerProofs ----------------------------
(* Proofs about an Organizer.  First its Subjects (Sujets), for any number    *)
(* of Subjects, tasks, requests at a time and scenes.  Then the jobs that     *)
(* make tasks of messages (OrganizerJobs), for any number of messages,        *)
(* attempts and incidents; they use the safety part of SpecJobs only.         *)
EXTENDS OrganizerJobs, Sujets, FiniteSetTheorems, WellFoundedInduction, TLAPS

SujetOuAucun == Sujet \cup {AucunSujet}
Ligne == [sujet : SujetOuAucun, faite : BOOLEAN, plan : BOOLEAN, la : BOOLEAN]

(* Where a request of an operation may stand.                              *)
Restes == [
    supprimer |-> {<<"confirmer", "lister", "supprimer">>, <<"lister", "supprimer">>,
                   <<"supprimer">>},
    archiver  |-> {<<"confirmer", "lister", "archiver">>, <<"lister", "archiver">>,
                   <<"archiver">>},
    dupliquer |-> {<<"lireTaches", "copier">>, <<"copier">>},
    regrouper |-> {<<"nommer", "deplacerTous">>, <<"deplacerTous">>}]
Reste == Restes["supprimer"] \cup Restes["archiver"] \cup Restes["dupliquer"]
            \cup Restes["regrouper"]

(* A request in hand, and the types of every variable. *)
Demandee == [op : Operation, s : SujetOuAucun, de : {"taches", "chat"},
             lu : SUBSET (Tache \cup (Tache \X Ligne)), annonce : SUBSET Tache, reste : Reste]

Types ==
    /\ bornes \in Depart
    /\ etat \in [Sujet -> EtatSujet]
    /\ taches \in [Tache -> Ligne]
    /\ requetes \in [Requete -> Demandee \cup {Libre}]
    /\ \A x \in Requete : Occupee(x) => requetes[x].reste \in Restes[requetes[x].op]
    /\ affiches \subseteq Sujet /\ actif \in SujetOuAucun
    /\ demandes \subseteq [garde : BOOLEAN, puis : SujetOuAucun]
    /\ reponses \subseteq [liste : SUBSET Sujet, garde : BOOLEAN, puis : SujetOuAucun]
    /\ chevauche \in BOOLEAN /\ actifOte \in BOOLEAN

(* A task that is there is filed under a Subject that is there, or none.   *)
Rangees == \A t \in Tache : taches[t].la => taches[t].sujet \in Existants \cup {AucunSujet}

(* The programs, statement by statement: where a request stands next, and  *)
(* which operations come to a deletion or an archival.                      *)
LEMMA LesRestes ==
    /\ Operation = {"supprimer", "archiver", "dupliquer", "regrouper"}
    /\ \A op \in Operation : Programme[op] \in Restes[op] /\ Restes[op] \subseteq Reste
    /\ \A s \in Reste : s # << >>
    /\ \A op \in Operation : \A s \in Restes[op] :
          /\ Head(s) \in {"confirmer", "lister", "lireTaches", "nommer"} =>
                Tail(s) \in Restes[op]
          /\ Head(s) = "supprimer" => op = "supprimer"
          /\ Head(s) = "archiver" => op = "archiver"
          /\ Head(s) = "lister" => op \in {"supprimer", "archiver"}
          /\ Head(s) = "lister" => /\ op = "supprimer" => Head(Tail(s)) = "supprimer"
                                   /\ op = "archiver" => Head(Tail(s)) = "archiver"
          /\ Head(s) \in {"confirmer", "lireTaches", "nommer"} =>
                Head(Tail(s)) \notin {"supprimer", "archiver"}
    /\ \A op \in Operation : Head(Programme[op]) \notin {"supprimer", "archiver"}
<1>1. Operation = {"supprimer", "archiver", "dupliquer", "regrouper"}
  BY DEF Operation, Programme
<1>2. \A op \in Operation : Programme[op] \in Restes[op] /\ Restes[op] \subseteq Reste
  BY <1>1 DEF Programme, Restes, Reste
<1>3. \A s \in Reste : s # << >>
  BY DEF Restes, Reste
<1>4. ASSUME NEW op \in Operation, NEW s \in Restes[op]
      PROVE  /\ Head(s) \in {"confirmer", "lister", "lireTaches", "nommer"} =>
                   Tail(s) \in Restes[op]
             /\ Head(s) = "supprimer" => op = "supprimer"
             /\ Head(s) = "archiver" => op = "archiver"
             /\ Head(s) = "lister" => op \in {"supprimer", "archiver"}
             /\ Head(s) = "lister" => /\ op = "supprimer" => Head(Tail(s)) = "supprimer"
                                      /\ op = "archiver" => Head(Tail(s)) = "archiver"
             /\ Head(s) \in {"confirmer", "lireTaches", "nommer"} =>
                   Head(Tail(s)) \notin {"supprimer", "archiver"}
  <2>1. CASE op = "supprimer"
    <3>1. Restes[op] = {<<"confirmer", "lister", "supprimer">>, <<"lister", "supprimer">>,
                        <<"supprimer">>}
      BY <2>1 DEF Restes
    <3>2. /\ Head(<<"confirmer", "lister", "supprimer">>) = "confirmer"
          /\ Tail(<<"confirmer", "lister", "supprimer">>) = <<"lister", "supprimer">>
          /\ Head(<<"lister", "supprimer">>) = "lister"
          /\ Tail(<<"lister", "supprimer">>) = <<"supprimer">>
          /\ Head(<<"supprimer">>) = "supprimer"
      OBVIOUS
    <3> QED BY <2>1, <3>1, <3>2
  <2>2. CASE op = "archiver"
    <3>1. Restes[op] = {<<"confirmer", "lister", "archiver">>, <<"lister", "archiver">>,
                        <<"archiver">>}
      BY <2>2 DEF Restes
    <3>2. /\ Head(<<"confirmer", "lister", "archiver">>) = "confirmer"
          /\ Tail(<<"confirmer", "lister", "archiver">>) = <<"lister", "archiver">>
          /\ Head(<<"lister", "archiver">>) = "lister"
          /\ Tail(<<"lister", "archiver">>) = <<"archiver">>
          /\ Head(<<"archiver">>) = "archiver"
      OBVIOUS
    <3> QED BY <2>2, <3>1, <3>2
  <2>3. CASE op = "dupliquer"
    <3>1. Restes[op] = {<<"lireTaches", "copier">>, <<"copier">>}
      BY <2>3 DEF Restes
    <3>2. /\ Head(<<"lireTaches", "copier">>) = "lireTaches"
          /\ Tail(<<"lireTaches", "copier">>) = <<"copier">>
          /\ Head(<<"copier">>) = "copier"
      OBVIOUS
    <3> QED BY <2>3, <3>1, <3>2
  <2>4. CASE op = "regrouper"
    <3>1. Restes[op] = {<<"nommer", "deplacerTous">>, <<"deplacerTous">>}
      BY <2>4 DEF Restes
    <3>2. /\ Head(<<"nommer", "deplacerTous">>) = "nommer"
          /\ Tail(<<"nommer", "deplacerTous">>) = <<"deplacerTous">>
          /\ Head(<<"deplacerTous">>) = "deplacerTous"
      OBVIOUS
    <3> QED BY <2>4, <3>1, <3>2
  <2> QED BY <1>1, <2>1, <2>2, <2>3, <2>4
<1>5. \A op \in Operation : Head(Programme[op]) \notin {"supprimer", "archiver"}
  BY <1>1 DEF Programme
<1> QED BY <1>1, <1>2, <1>3, <1>4, <1>5

(* A request in hand is at a statement of its program. *)
LEMMA EnMain ==
    ASSUME Types, NEW x \in Requete, NEW i, Attend(x, i)
    PROVE  /\ requetes[x] \in Demandee /\ requetes[x] # Libre
           /\ requetes[x].op \in Operation
           /\ requetes[x].reste \in Restes[requetes[x].op] /\ Head(requetes[x].reste) = i
BY DEF Types, Attend, Occupee, Demandee

(* A request that is received. *)
Fiche == [op : Operation \cup {"aucune"}, s : SujetOuAucun, de : {"taches", "chat"},
          lu : SUBSET (Tache \cup (Tache \X Ligne)), annonce : SUBSET Tache,
          reste : Reste \cup {<< >>}]

(* What the two buttons write is one. *)
LEMMA Recevable ==
    ASSUME NEW op \in Operation, NEW s \in SujetOuAucun, NEW G \in SUBSET Tache,
           NEW p \in {[Libre EXCEPT !.op = op, !.s = s, !.reste = Programme[op], !.annonce = G],
                      [Libre EXCEPT !.op = op, !.s = s, !.de = "chat", !.reste = Programme[op]]}
    PROVE  p \in Demandee /\ p.reste \in Restes[p.op]
           /\ Head(p.reste) \notin {"supprimer", "archiver"}
<1>1. Programme[op] \in Restes[op] /\ Programme[op] \in Reste
  BY LesRestes
<1>2. Libre \in Fiche
  BY DEF Libre, Fiche, SujetOuAucun
<1>3. p \in Fiche /\ p.op = op /\ p.reste = Programme[op]
  BY <1>1, <1>2 DEF Fiche
<1>4. p \in Demandee
  BY <1>1, <1>3 DEF Fiche, Demandee
<1> QED BY <1>1, <1>3, <1>4, LesRestes

(* A request that goes on, with another Subject or another reading.         *)
Suit(p, q, s) ==
    /\ p \in Demandee /\ p # Libre /\ p.reste \in Restes[p.op]
    /\ p.op = q.op /\ p.s = s /\ p.reste = Tail(q.reste)
Lus == SUBSET (Tache \cup (Tache \X Ligne))
AvantLaFin == {"confirmer", "lister", "lireTaches", "nommer"}

(* After a statement other than the last, a request is still in its program. *)
LEMMA SuiteDuProgramme ==
    ASSUME Types, NEW x \in Requete, NEW i \in AvantLaFin, Attend(x, i),
           NEW s \in SujetOuAucun, NEW lu \in Lus, NEW r, r = Tail(requetes[x].reste)
    PROVE  /\ Suit([requetes[x] EXCEPT !.s = s, !.lu = lu, !.reste = r], requetes[x], s)
           /\ Suit([requetes[x] EXCEPT !.reste = r, !.lu = lu], requetes[x], requetes[x].s)
           /\ Suit([requetes[x] EXCEPT !.reste = r], requetes[x], requetes[x].s)
<1> DEFINE q == requetes[x]
           p1 == [q EXCEPT !.s = s, !.lu = lu, !.reste = r]
           p2 == [q EXCEPT !.reste = r, !.lu = lu]
           p3 == [q EXCEPT !.reste = r]
<1>1. q \in Demandee /\ q.op \in Operation /\ q.reste \in Restes[q.op] /\ Head(q.reste) = i
      /\ r = Tail(q.reste)
  BY EnMain
<1>2. r \in Restes[q.op] /\ r \in Reste /\ "aucune" \notin Operation
  BY <1>1, LesRestes DEF AvantLaFin
<1> HIDE DEF q
<1>3. p1 \in Demandee /\ p2 \in Demandee /\ p3 \in Demandee
  BY <1>1, <1>2 DEF Demandee, Lus
<1>4. /\ p1.op = q.op /\ p1.s = s /\ p1.reste = r
      /\ p2.op = q.op /\ p2.s = q.s /\ p2.reste = r
      /\ p3.op = q.op /\ p3.s = q.s /\ p3.reste = r
  BY <1>1, <1>2 DEF Demandee
<1> HIDE DEF p1, p2, p3
<1>5. Suit(p1, q, s) /\ Suit(p2, q, q.s) /\ Suit(p3, q, q.s)
  <2>1. Libre.op = "aucune"
    BY DEF Libre
  <2>2. p1 # Libre /\ p2 # Libre /\ p3 # Libre
    BY <1>1, <1>2, <1>4, <2>1
  <2> HIDE DEF q
  <2>3. r \in Restes[p1.op] /\ r \in Restes[p2.op] /\ r \in Restes[p3.op]
    BY <1>2, <1>4
  <2> QED BY <1>1, <1>3, <1>4, <2>2, <2>3 DEF Suit
<1> QED BY <1>5 DEF p1, p2, p3, q

(* A step changes one request at most, which then stands at a statement of  *)
(* its program; it comes to a deletion or an archival by having listed the  *)
(* Subjects and found another one.                                          *)
Passe(q) == /\ q.op = "supprimer" => ResteUn(q.s)
            /\ q.op = "archiver" => ResteActif(q.s)
AuBord(q) == q # Libre /\ Head(q.reste) \in {"supprimer", "archiver"}
Bouge(x, p) ==
    /\ requetes' = [requetes EXCEPT ![x] = p]
    /\ p # Libre => p.reste \in Restes[p.op]
    /\ AuBord(p) => /\ Lister(x) /\ Passe(p) /\ p.s = requetes[x].s
                    /\ Head(p.reste) = p.op

LEMMA Mouvement ==
    ASSUME Types, [Next]_vars
    PROVE  requetes' = requetes \/ \E x \in Requete, p \in Demandee \cup {Libre} : Bouge(x, p)
<1>r. \A x \in Requete : requetes[x] \in Demandee \cup {Libre}
  BY DEF Types
<1>l. Libre \in Demandee \cup {Libre} /\ \A x \in Requete : Terminer(x) => Bouge(x, Libre)
  BY DEF Bouge, AuBord, Terminer
<1>s. ASSUME NEW x \in Requete, NEW i \in AvantLaFin \ {"lister"}, Attend(x, i),
             NEW s, NEW p, Suit(p, requetes[x], s), requetes' = [requetes EXCEPT ![x] = p]
      PROVE  \E y \in Requete, n \in Demandee \cup {Libre} : Bouge(y, n)
  <2>1. requetes[x].op \in Operation /\ requetes[x].reste \in Restes[requetes[x].op]
        /\ Head(requetes[x].reste) = i
    BY <1>s, EnMain
  <2>2. Head(Tail(requetes[x].reste)) \notin {"supprimer", "archiver"}
    BY <2>1, LesRestes DEF AvantLaFin
  <2>3. p \in Demandee /\ p.reste \in Restes[p.op] /\ ~AuBord(p)
    BY <1>s, <2>2 DEF AuBord, Suit
  <2> QED BY <1>s, <2>3 DEF Bouge
<1>d. ASSUME NEW x \in Requete, NEW i \in AvantLaFin, Attend(x, i)
      PROVE  /\ requetes[x].s \in SujetOuAucun /\ requetes[x].lu \in Lus
             /\ requetes[x].annonce \in Lus
  BY <1>d, EnMain DEF Demandee, Lus
<1>1. ASSUME NEW x \in Requete, NEW op \in Operation, NEW s \in SujetOuAucun, NEW f \in BOOLEAN,
             DepuisOnglet(x, op, s, f)
      PROVE  \E y \in Requete, n \in Demandee \cup {Libre} : Bouge(y, n)
  <2> DEFINE p == [Libre EXCEPT !.op = op, !.s = s, !.reste = Programme[op],
                                !.annonce = Groupe(s, f)]
  <2>1. Groupe(s, f) \subseteq Tache
    BY DEF Groupe, AfficherTous, Filtrer, Contenu, Presentes
  <2>2. p \in Demandee /\ ~AuBord(p) /\ p.reste \in Restes[p.op]
    BY <2>1, Recevable DEF AuBord
  <2>3. requetes' = [requetes EXCEPT ![x] = p]
    BY <1>1 DEF DepuisOnglet
  <2> HIDE DEF p
  <2> QED BY <2>2, <2>3 DEF Bouge
<1>2. ASSUME NEW x \in Requete, NEW s \in Sujet, DepuisChat(x, s)
      PROVE  \E y \in Requete, n \in Demandee \cup {Libre} : Bouge(y, n)
  <2> DEFINE p == [Libre EXCEPT !.op = "supprimer", !.s = s, !.de = "chat",
                                !.reste = Programme["supprimer"]]
  <2>1. "supprimer" \in Operation /\ s \in SujetOuAucun
    BY LesRestes DEF SujetOuAucun
  <2>2. p \in Demandee /\ ~AuBord(p) /\ p.reste \in Restes[p.op]
    BY <2>1, Recevable DEF AuBord
  <2>3. requetes' = [requetes EXCEPT ![x] = p]
    BY <1>2 DEF DepuisChat
  <2> HIDE DEF p
  <2> QED BY <2>2, <2>3 DEF Bouge
<1>3. ASSUME NEW x \in Requete, Confirmer(x)
      PROVE  \E y \in Requete, n \in Demandee \cup {Libre} : Bouge(y, n)
  <2>1. Attend(x, "confirmer")
    BY <1>3 DEF Confirmer
  <2>2. CASE Avancer(x)
    <3> DEFINE p == [requetes[x] EXCEPT !.reste = Tail(requetes[x].reste)]
    <3>1. requetes' = [requetes EXCEPT ![x] = p]
      BY <2>2 DEF Avancer
    <3>2. Suit(p, requetes[x], requetes[x].s)
      BY <2>1, <1>d, SuiteDuProgramme DEF AvantLaFin
    <3> HIDE DEF p
    <3> QED BY <2>1, <3>1, <3>2, <1>s DEF AvantLaFin
  <2> QED BY <1>3, <1>l, <2>2 DEF Confirmer
<1>4. ASSUME NEW x \in Requete, Lister(x)
      PROVE  \E y \in Requete, n \in Demandee \cup {Libre} : Bouge(y, n)
  <2>1. Attend(x, "lister")
    BY <1>4 DEF Lister
  <2>2. CASE Avancer(x) /\ IF requetes[x].op = "supprimer" THEN ResteUn(requetes[x].s)
                                                            ELSE ResteActif(requetes[x].s)
    <3> DEFINE p == [requetes[x] EXCEPT !.reste = Tail(requetes[x].reste)]
    <3>1. requetes' = [requetes EXCEPT ![x] = p]
      BY <2>2 DEF Avancer
    <3>2. Suit(p, requetes[x], requetes[x].s)
      BY <2>1, <1>d, SuiteDuProgramme DEF AvantLaFin
    <3> HIDE DEF p
    <3>3. Head(p.reste) = p.op /\ p.op \in {"supprimer", "archiver"}
      <4>1. requetes[x].op \in Operation /\ requetes[x].reste \in Restes[requetes[x].op]
            /\ Head(requetes[x].reste) = "lister"
        BY <2>1, EnMain
      <4>2. Head(Tail(requetes[x].reste)) = requetes[x].op
            /\ requetes[x].op \in {"supprimer", "archiver"}
        BY <4>1, LesRestes
      <4> QED BY <3>2, <4>2 DEF Suit
    <3> QED BY <1>4, <2>2, <3>1, <3>2, <3>3 DEF Bouge, Passe, Suit
  <2> QED BY <1>4, <1>l, <2>2 DEF Lister
<1>5. ASSUME NEW x \in Requete, LireTaches(x)
      PROVE  \E y \in Requete, n \in Demandee \cup {Libre} : Bouge(y, n)
  <2>1. Attend(x, "lireTaches")
    BY <1>5 DEF LireTaches
  <2> DEFINE lu == {<<t, taches[t]>> : t \in Contenu(requetes[x].s)}
  <2>2. lu \in Lus
    BY DEF Contenu, Presentes, Lus, Types
  <2>3. CASE Lire(x, lu)
    <3> DEFINE p == [requetes[x] EXCEPT !.reste = Tail(requetes[x].reste), !.lu = lu]
    <3> HIDE DEF lu
    <3>1. requetes' = [requetes EXCEPT ![x] = p]
      BY <2>3 DEF Lire, Types
    <3>2. Suit(p, requetes[x], requetes[x].s)
      BY <2>1, <2>2, <1>d, SuiteDuProgramme DEF AvantLaFin
    <3> HIDE DEF p
    <3> QED BY <2>1, <3>1, <3>2, <1>s DEF AvantLaFin
  <2> QED BY <1>5, <1>l, <2>3 DEF LireTaches
<1>6. ASSUME NEW x \in Requete, Nommer(x)
      PROVE  \E y \in Requete, n \in Demandee \cup {Libre} : Bouge(y, n)
  <2>1. Attend(x, "nommer")
    BY <1>6 DEF Nommer
  <2>2. PICK s \in Sujet : requetes' = [requetes EXCEPT ![x].s = s, ![x].lu = requetes[x].annonce,
                                                        ![x].reste = Tail(@)]
    BY <1>6 DEF Nommer
  <2> DEFINE p == [requetes[x] EXCEPT !.s = s, !.lu = requetes[x].annonce,
                                      !.reste = Tail(requetes[x].reste)]
  <2>3. requetes' = [requetes EXCEPT ![x] = p]
    BY <2>2 DEF Types
  <2>4. Suit(p, requetes[x], s)
    BY <2>1, <1>d, SuiteDuProgramme DEF AvantLaFin, SujetOuAucun
  <2> HIDE DEF p
  <2> QED BY <2>1, <2>3, <2>4, <1>s DEF AvantLaFin
<1>7. ASSUME NEW x \in Requete, NEW t \in Tache, DeplacerUne(x, t)
      PROVE  \E y \in Requete, n \in Demandee \cup {Libre} : Bouge(y, n)
  <2>1. /\ requetes[x] \in Demandee /\ requetes[x] # Libre
        /\ requetes[x].reste \in Restes[requetes[x].op] /\ requetes[x].op \in Operation
        /\ Head(requetes[x].reste) = "deplacerTous"
    BY <1>7, EnMain DEF DeplacerUne
  <2>2. CASE requetes' = [requetes EXCEPT ![x].lu = @ \ {t}]
    <3> DEFINE q == requetes[x]
               p == [q EXCEPT !.lu = q.lu \ {t}]
    <3> HIDE DEF q
    <3>1. p \in Demandee /\ p.op = q.op /\ p.reste = q.reste
      BY <2>1 DEF Demandee, q
    <3>2. ~AuBord(p) /\ p.reste \in Restes[p.op]
      BY <2>1, <3>1 DEF AuBord, q
    <3>3. requetes' = [requetes EXCEPT ![x] = p]
      BY <2>2 DEF q
    <3> HIDE DEF p
    <3> QED BY <3>1, <3>2, <3>3 DEF Bouge
  <2> QED BY <1>7, <1>l, <2>2 DEF DeplacerUne
<1>8. ASSUME NEW x \in Requete, Renoncer(x) \/ Supprimer(x) \/ Archiver(x) \/ Copier(x)
      PROVE  \E y \in Requete, n \in Demandee \cup {Libre} : Bouge(y, n)
  BY <1>8, <1>l DEF Renoncer, Supprimer, Archiver, Copier
<1>9. ASSUME NEW x \in Requete, Traiter(x)
      PROVE  \E y \in Requete, n \in Demandee \cup {Libre} : Bouge(y, n)
  BY <1>1, <1>2, <1>3, <1>4, <1>5, <1>6, <1>7, <1>8, <1>9 DEF Traiter, SujetOuAucun
<1> QED BY <1>9 DEF Next, Creer, CreerAuChat, Desarchiver, Ajouter, Convertir, Deplacer, Achever,
      Sonder, LireUneListe, LireListe, RecevoirUne, Recevoir, Choisir, vars

-----------------------------------------------------------------------------
(* Types.                                                                   *)

(* The types hold at the start. *)
LEMMA TypesInit == Init => Types
<1> SUFFICES ASSUME Init PROVE Types
  OBVIOUS
<1>1. Absente \in Ligne
  BY DEF Absente, Ligne, SujetOuAucun
<1> QED BY <1>1 DEF Init, Types, EtatSujet, Occupee, SujetOuAucun

(* A nonempty set of numbers below a bound has a greatest one. *)
LEMMA LePlusGrand ==
    ASSUME NEW n \in Nat, NEW S \in SUBSET (1..n), S # {}
    PROVE  \E s \in S : \A q \in S : q <= s
<1> DEFINE T == {k \in Nat : n - k \in S}
<1>1. PICK s \in S : s \in 1..n
  OBVIOUS
<1>2. n - s \in T
  BY <1>1
<1>3. PICK k \in T : \A j \in T : ~(<<j, k>> \in OpToRel(<, Nat))
  BY <1>2, NatLessThanWellFounded, WFMin
<1>4. ASSUME NEW q \in S PROVE q <= n - k
  <2>1. n - q \in T
    OBVIOUS
  <2>2. ~(n - q < k)
    BY <1>3, <2>1 DEF OpToRel
  <2> QED BY <2>2
<1> QED BY <1>4

(* Whatever a step writes is of the right kind. *)
LEMMA TypesStep == Types /\ [Next]_vars => Types'
<1> SUFFICES ASSUME Types, [Next]_vars PROVE Types'
  OBVIOUS
<1> DEFINE TypeLignes == etat \in [Sujet -> EtatSujet] /\ taches \in [Tache -> Ligne]
           TypeChat == /\ affiches \subseteq Sujet /\ actif \in SujetOuAucun
                       /\ demandes \subseteq [garde : BOOLEAN, puis : SujetOuAucun]
                       /\ reponses \subseteq
                             [liste : SUBSET Sujet, garde : BOOLEAN, puis : SujetOuAucun]
           TypeReste == bornes \in Depart /\ chevauche \in BOOLEAN /\ actifOte \in BOOLEAN
<1>t. TypeLignes /\ TypeChat /\ TypeReste
  BY DEF Types
<1>l. UNCHANGED lignes => TypeLignes'
  BY <1>t DEF lignes
<1>c. UNCHANGED chat => TypeChat'
  BY <1>t DEF chat
<1>h. UNCHANGED <<bornes, histoire>> => TypeReste'
  BY <1>t DEF histoire
<1>r. /\ requetes' \in [Requete -> Demandee \cup {Libre}]
      /\ \A x \in Requete :
            requetes'[x] # Libre => requetes'[x].reste \in Restes[requetes'[x].op]
  <2>1. CASE requetes' = requetes
    BY <2>1 DEF Types, Occupee
  <2>2. ASSUME NEW x \in Requete, NEW p \in Demandee \cup {Libre}, Bouge(x, p)
        PROVE  /\ requetes' \in [Requete -> Demandee \cup {Libre}]
               /\ \A y \in Requete :
                     requetes'[y] # Libre => requetes'[y].reste \in Restes[requetes'[y].op]
    BY <2>2 DEF Types, Occupee, Bouge
  <2> QED BY <2>1, <2>2, Mouvement
<1>n. ASSUME NEW s \in Sujet, NEW e \in EtatSujet
      PROVE  [etat EXCEPT ![s] = e] \in [Sujet -> EtatSujet]
  BY <1>t
<1>a. /\ Absente \in Ligne
      /\ \A s \in SujetOuAucun, l \in Ligne : [l EXCEPT !.sujet = s] \in Ligne
      /\ \A l \in Ligne : [l EXCEPT !.faite = TRUE] \in Ligne
      /\ {"actif", "archive", "supprime"} \subseteq EtatSujet
      /\ Sujet \subseteq SujetOuAucun /\ AucunSujet \in SujetOuAucun
  BY DEF Absente, Ligne, SujetOuAucun, EtatSujet
<1>1. ASSUME NEW x \in Requete, NEW op \in Operation, NEW s \in Sujet \cup {AucunSujet},
             NEW f \in BOOLEAN, DepuisOnglet(x, op, s, f) \/ DepuisChat(x, s) \/ Confirmer(x)
                                \/ Renoncer(x) \/ Lister(x) \/ LireTaches(x)
      PROVE  (TypeLignes /\ TypeChat /\ TypeReste)'
  BY <1>t, <1>1 DEF DepuisOnglet, DepuisChat, Confirmer, Renoncer, Lister, LireTaches, lignes,
       chat, histoire
<1>2. ASSUME NEW x \in Requete, Supprimer(x) PROVE (TypeLignes /\ TypeChat /\ TypeReste)'
  <2>1. requetes[x] \in Demandee
    BY <1>2, EnMain DEF Supprimer
  <2>2. etat' \in [Sujet -> EtatSujet]
    BY <1>2, <1>a, <1>t, <1>n DEF Supprimer, Existants
  <2>3. taches' \in [Tache -> Ligne]
    BY <1>2, <1>a, <1>t DEF Supprimer
  <2>4. demandes' \subseteq [garde : BOOLEAN, puis : SujetOuAucun]
    <3>1. [garde |-> FALSE, puis |-> AucunSujet] \in [garde : BOOLEAN, puis : SujetOuAucun]
      BY <1>a
    <3> QED BY <1>2, <1>t, <3>1 DEF Supprimer, Recharge
  <2> QED BY <1>2, <1>t, <2>2, <2>3, <2>4 DEF Supprimer
<1>3. ASSUME NEW x \in Requete, Archiver(x) PROVE (TypeLignes /\ TypeChat /\ TypeReste)'
  BY <1>3, <1>a, <1>t, <1>n, <1>c, <1>h DEF Archiver, Existants
<1>4. ASSUME NEW x \in Requete, Copier(x) PROVE (TypeLignes /\ TypeChat /\ TypeReste)'
  <2>1. PICK s \in Sujet, T \in TachesNeuves(Cardinality(requetes[x].lu)) :
            /\ etat' = [etat EXCEPT ![s] = "actif"]
            /\ taches' = [t \in Tache |->
                  IF t \in T THEN [Absente EXCEPT !.sujet = s, !.la = TRUE,
                                        !.plan = \E c \in requetes[x].lu : c[2].plan]
                  ELSE taches[t]]
    BY <1>4 DEF Copier
  <2>2. ASSUME NEW b \in BOOLEAN
        PROVE  [Absente EXCEPT !.sujet = s, !.la = TRUE, !.plan = b] \in Ligne
    BY <1>a DEF Ligne
  <2>3. taches' \in [Tache -> Ligne]
    BY <1>t, <2>1, <2>2
  <2>4. etat' \in [Sujet -> EtatSujet]
    BY <1>a, <1>n, <2>1
  <2> QED BY <1>4, <1>c, <1>h, <2>3, <2>4 DEF Copier
<1>5. ASSUME NEW x \in Requete, Nommer(x) PROVE (TypeLignes /\ TypeChat /\ TypeReste)'
  BY <1>5, <1>a, <1>t, <1>n, <1>c, <1>h DEF Nommer
<1>6. ASSUME NEW x \in Requete, NEW t \in Tache, DeplacerUne(x, t)
      PROVE  (TypeLignes /\ TypeChat /\ TypeReste)'
  <2>1. requetes[x].s \in SujetOuAucun
    BY <1>6, EnMain DEF DeplacerUne, Demandee
  <2>2. taches' \in [Tache -> Ligne]
    BY <1>6, <1>a, <1>t, <2>1 DEF DeplacerUne
  <2> QED BY <1>6, <1>t, <1>c, <1>h, <2>2 DEF DeplacerUne
<1>7. ASSUME NEW s \in Sujet, Creer(s) \/ CreerAuChat(s) \/ Desarchiver(s)
      PROVE  (TypeLignes /\ TypeChat /\ TypeReste)'
  <2>1. etat' \in [Sujet -> EtatSujet] /\ taches' = taches
    BY <1>7, <1>a, <1>n DEF Creer, CreerAuChat, Desarchiver
  <2>2. TypeChat'
    <3>1. CASE CreerAuChat(s)
      <4>1. [garde |-> TRUE, puis |-> s] \in [garde : BOOLEAN, puis : SujetOuAucun]
        BY <1>a
      <4> QED BY <3>1, <4>1, <1>t DEF CreerAuChat
    <3> QED BY <1>7, <1>c, <3>1 DEF Creer, Desarchiver
  <2> QED BY <1>7, <1>t, <1>h, <2>1, <2>2 DEF Creer, CreerAuChat, Desarchiver
<1>8. ASSUME NEW t \in Tache, NEW s \in Sujet \cup {AucunSujet},
             Ajouter(t, s) \/ Deplacer(t, s) \/ Convertir(t) \/ Achever(t)
      PROVE  (TypeLignes /\ TypeChat /\ TypeReste)'
  <2>1. /\ [Absente EXCEPT !.la = TRUE, !.sujet = s] \in Ligne
        /\ [Absente EXCEPT !.la = TRUE, !.plan = TRUE] \in Ligne
        /\ [taches[t] EXCEPT !.sujet = s] \in Ligne /\ [taches[t] EXCEPT !.faite = TRUE] \in Ligne
    BY <1>a, <1>t DEF Ligne, SujetOuAucun
  <2>2. taches' \in [Tache -> Ligne]
    BY <1>8, <1>t, <2>1 DEF Ajouter, Deplacer, Convertir, Achever
  <2> QED BY <1>8, <1>t, <1>c, <1>h, <2>2 DEF Ajouter, Deplacer, Convertir, Achever
<1>9. ASSUME Sonder PROVE (TypeLignes /\ TypeChat /\ TypeReste)'
  <2>1. Periodique \in [garde : BOOLEAN, puis : SujetOuAucun]
    BY <1>a DEF Periodique
  <2>2. /\ demandes' = demandes \cup {Periodique}
        /\ UNCHANGED <<lignes, affiches, actif, reponses, bornes, histoire>>
    BY <1>9 DEF Sonder
  <2>3. TypeChat'
    BY <1>t, <2>1, <2>2
  <2>4. TypeLignes' /\ TypeReste'
    BY <1>t, <2>2 DEF lignes, histoire
  <2> QED BY <2>3, <2>4
<1>10. ASSUME NEW d \in demandes, LireListe(d) PROVE (TypeLignes /\ TypeChat /\ TypeReste)'
  <2>1. [liste |-> Existants, garde |-> d.garde, puis |-> d.puis] \in
            [liste : SUBSET Sujet, garde : BOOLEAN, puis : SujetOuAucun]
    BY <1>t DEF Existants
  <2> QED BY <1>10, <1>t, <1>l, <1>h, <2>1 DEF LireListe
<1>11. ASSUME NEW r \in reponses, Recevoir(r) PROVE (TypeLignes /\ TypeChat /\ TypeReste)'
  <2>1. r.liste \subseteq Sujet /\ r.puis \in SujetOuAucun
    BY <1>t
  <2>2. Premier(r.liste) \in SujetOuAucun
    <3>1. CASE r.liste = {}
      BY <1>a, <3>1 DEF Premier
    <3>2. CASE r.liste # {}
      <4>1. \E s \in r.liste : \A q \in r.liste : q <= s
        <5>1. r.liste \in SUBSET (1..MaxSujets) /\ MaxSujets \in Nat
          BY <2>1, SujetsAssumption DEF Sujet
        <5> QED BY <3>2, <5>1, LePlusGrand
      <4> QED BY <2>1, <3>2, <4>1, <1>a DEF Premier
    <3> QED BY <3>1, <3>2
  <2> QED BY <1>11, <1>t, <1>l, <1>h, <2>1, <2>2 DEF Recevoir
<1>12. ASSUME NEW s \in Sujet, Choisir(s) PROVE (TypeLignes /\ TypeChat /\ TypeReste)'
  BY <1>12, <1>t, <1>l, <1>h, <1>a DEF Choisir
<1>13. UNCHANGED vars => (TypeLignes /\ TypeChat /\ TypeReste)'
  BY <1>t DEF vars, lignes, chat, histoire
<1>14. (TypeLignes /\ TypeChat /\ TypeReste)'
  <2>1. ASSUME NEW x \in Requete, Traiter(x) PROVE (TypeLignes /\ TypeChat /\ TypeReste)'
    <3>1. Operation # {} /\ BOOLEAN # {} /\ AucunSujet \in Sujet \cup {AucunSujet}
      BY LesRestes
    <3> HIDE DEF TypeLignes, TypeChat, TypeReste
    <3> QED BY <2>1, <1>1, <1>2, <1>3, <1>4, <1>5, <1>6, <3>1 DEF Traiter
  <2>2. ASSUME NEW t \in Tache, Convertir(t) \/ Achever(t)
        PROVE  (TypeLignes /\ TypeChat /\ TypeReste)'
    <3>1. AucunSujet \in Sujet \cup {AucunSujet}
      OBVIOUS
    <3> HIDE DEF TypeLignes, TypeChat, TypeReste
    <3> QED BY <2>2, <1>8, <3>1
  <2> DEFINE But == TypeLignes /\ TypeChat /\ TypeReste
  <2>3. ASSUME NEW s \in Sujet, Creer(s) \/ CreerAuChat(s) \/ Desarchiver(s) \/ Choisir(s)
        PROVE  But'
    BY <2>3, <1>7, <1>12
  <2>4. ASSUME NEW t \in Tache, NEW s \in Sujet \cup {AucunSujet}, Ajouter(t, s) \/ Deplacer(t, s)
        PROVE  But'
    BY <2>4, <1>8
  <2>5. CASE LireUneListe \/ RecevoirUne \/ Sonder
    BY <2>5, <1>9, <1>10, <1>11 DEF LireUneListe, RecevoirUne
  <2> HIDE DEF TypeLignes, TypeChat, TypeReste
  <2> QED BY <2>1, <2>2, <2>3, <2>4, <2>5, <1>13 DEF Next
<1> QED BY <1>r, <1>14 DEF Types, Occupee

-----------------------------------------------------------------------------
(* Tasks and their Subjects.                                                *)

(* Deleting a Subject takes its tasks along, and a task is filed or moved    *)
(* under one that is there.                                                 *)
LEMMA RangeesStep == Types /\ Rangees /\ [Next]_vars => Rangees'
<1> SUFFICES ASSUME Types, Rangees, [Next]_vars, NEW t \in Tache, taches'[t].la
             PROVE  \/ taches'[t].sujet = AucunSujet
                    \/ taches'[t].sujet \in Sujet /\ etat'[taches'[t].sujet] \in {"actif", "archive"}
  BY DEF Rangees, Existants
<1> DEFINE Filee(l, e) == \/ l.sujet = AucunSujet
                          \/ l.sujet \in Sujet /\ e[l.sujet] \in {"actif", "archive"}
<1>t. /\ etat \in [Sujet -> EtatSujet] /\ taches \in [Tache -> Ligne]
      /\ taches[t].la => Filee(taches[t], etat)
      /\ ~Absente.la /\ Absente.sujet = AucunSujet /\ Absente \in Ligne
  BY DEF Types, Rangees, Existants, Absente, Ligne, SujetOuAucun
<1>m. taches' = taches /\ (\A s \in Sujet : etat[s] \in {"actif", "archive"} =>
                                                etat'[s] \in {"actif", "archive"})
         => Filee(taches'[t], etat')
  BY <1>t
<1>1. ASSUME NEW x \in Requete, NEW op \in Operation, NEW s \in Sujet \cup {AucunSujet},
             NEW f \in BOOLEAN, DepuisOnglet(x, op, s, f) \/ DepuisChat(x, s) \/ Confirmer(x)
                                \/ Renoncer(x) \/ Lister(x) \/ LireTaches(x)
      PROVE  Filee(taches'[t], etat')
  BY <1>t, <1>1 DEF DepuisOnglet, DepuisChat, Confirmer, Renoncer, Lister, LireTaches, lignes
<1>2. ASSUME NEW x \in Requete, Supprimer(x) PROVE Filee(taches'[t], etat')
  <2>1. CASE requetes[x].s \in Existants
    <3>1. taches'[t] = IF t \in Contenu(requetes[x].s) THEN Absente ELSE taches[t]
      BY <1>2, <2>1 DEF Supprimer
    <3>2. taches'[t] = taches[t] /\ taches[t].sujet # requetes[x].s
      BY <1>t, <3>1 DEF Contenu, Presentes
    <3> QED BY <1>t, <1>2, <2>1, <3>2 DEF Supprimer
  <2>2. CASE requetes[x].s \notin Existants
    BY <1>t, <1>2, <2>2 DEF Supprimer
  <2> QED BY <2>1, <2>2
<1>3. ASSUME NEW x \in Requete, Archiver(x) PROVE Filee(taches'[t], etat')
  BY <1>3, <1>t DEF Archiver, Existants
<1>4. ASSUME NEW x \in Requete, Copier(x) PROVE Filee(taches'[t], etat')
  <2>1. PICK s \in Sujet, T \in TachesNeuves(Cardinality(requetes[x].lu)) :
            /\ etat' = [etat EXCEPT ![s] = "actif"]
            /\ taches' = [v \in Tache |->
                  IF v \in T THEN [Absente EXCEPT !.sujet = s, !.la = TRUE,
                                        !.plan = \E c \in requetes[x].lu : c[2].plan]
                  ELSE taches[v]]
    BY <1>4 DEF Copier
  <2>2. CASE t \in T
    <3>1. taches'[t].sujet = s
      BY <1>t, <2>1, <2>2 DEF Ligne
    <3> QED BY <1>t, <2>1, <3>1
  <2>3. CASE t \notin T
    BY <1>t, <2>1, <2>3
  <2> QED BY <2>2, <2>3
<1>5. ASSUME NEW x \in Requete, Nommer(x) PROVE Filee(taches'[t], etat')
  BY <1>5, <1>t DEF Nommer
<1>6. ASSUME NEW x \in Requete, NEW v \in Tache, DeplacerUne(x, v)
      PROVE  Filee(taches'[t], etat')
  BY <1>6, <1>t DEF DeplacerUne, Deplacable, Existants, Ligne
<1>7. ASSUME NEW s \in Sujet, Creer(s) \/ CreerAuChat(s) \/ Desarchiver(s)
      PROVE  Filee(taches'[t], etat')
  BY <1>7, <1>t DEF Creer, CreerAuChat, Desarchiver
<1>8. ASSUME NEW v \in Tache, NEW s \in Sujet \cup {AucunSujet}, Ajouter(v, s) \/ Deplacer(v, s)
      PROVE  Filee(taches'[t], etat')
  BY <1>8, <1>t DEF Ajouter, Deplacer, Deplacable, Existants, Ligne
<1>9. ASSUME NEW v \in Tache, Convertir(v) \/ Achever(v) PROVE Filee(taches'[t], etat')
  <2>1. CASE Convertir(v)
    <3>1. [Absente EXCEPT !.la = TRUE, !.plan = TRUE].sujet = AucunSujet
      BY <1>t DEF Ligne
    <3>2. etat' = etat /\ taches' = [taches EXCEPT ![v] = [Absente EXCEPT !.la = TRUE, !.plan = TRUE]]
      BY <2>1 DEF Convertir
    <3> QED BY <1>t, <3>1, <3>2
  <2>2. CASE Achever(v)
    <3>1. [taches[v] EXCEPT !.faite = TRUE].sujet = taches[v].sujet
      BY <1>t DEF Ligne
    <3> QED BY <1>t, <2>2, <3>1 DEF Achever
  <2> QED BY <1>9, <2>1, <2>2
<1>10. ASSUME NEW s \in Sujet,
              Sonder \/ LireUneListe \/ RecevoirUne \/ Choisir(s) \/ UNCHANGED vars
       PROVE  Filee(taches'[t], etat')
  BY <1>10, <1>t DEF Sonder, LireUneListe, LireListe, RecevoirUne, Recevoir, Choisir, vars, lignes
<1>11. ASSUME NEW x \in Requete, Traiter(x) PROVE Filee(taches'[t], etat')
  <2>1. Operation # {} /\ BOOLEAN # {} /\ AucunSujet \in Sujet \cup {AucunSujet}
    BY LesRestes
  <2> HIDE DEF Filee
  <2> QED BY <1>11, <1>1, <1>2, <1>3, <1>4, <1>5, <1>6, <2>1 DEF Traiter
<1>12. Filee(taches'[t], etat')
  <2>1. 1 \in Sujet
    BY SujetsAssumption DEF Sujet
  <2> HIDE DEF Filee
  <2>2. CASE Sonder \/ LireUneListe \/ RecevoirUne \/ UNCHANGED vars
    BY <1>10, <2>1, <2>2
  <2>3. ASSUME NEW s \in Sujet, Creer(s) \/ CreerAuChat(s) \/ Desarchiver(s) \/ Choisir(s)
        PROVE  Filee(taches'[t], etat')
    BY <1>7, <1>10, <2>3
  <2>4. ASSUME NEW v \in Tache, NEW s \in Sujet \cup {AucunSujet}, Ajouter(v, s) \/ Deplacer(v, s)
        PROVE  Filee(taches'[t], etat')
    BY <1>8, <2>4
  <2>8. CASE \E x \in Requete : Traiter(x)
    BY <1>11, <2>8
  <2>9. CASE \E s \in Sujet : Creer(s)
    BY <2>3, <2>9
  <2>10. CASE \E s \in Sujet : CreerAuChat(s)
    BY <2>3, <2>10
  <2>11. CASE \E s \in Sujet : Desarchiver(s)
    BY <2>3, <2>11
  <2>12. CASE \E s \in Sujet : Choisir(s)
    BY <2>3, <2>12
  <2>13. CASE \E v \in Tache, s \in Sujet \cup {AucunSujet} : Ajouter(v, s)
    BY <2>4, <2>13
  <2>14. CASE \E v \in Tache, s \in Sujet \cup {AucunSujet} : Deplacer(v, s)
    BY <2>4, <2>14
  <2>15. CASE \E v \in Tache : Convertir(v)
    BY <1>9, <2>15
  <2>16. CASE \E v \in Tache : Achever(v)
    BY <1>9, <2>16
  <2>17. Next \/ UNCHANGED vars
    OBVIOUS
  <2> QED BY <2>2, <2>8, <2>9, <2>10, <2>11, <2>12, <2>13, <2>14, <2>15, <2>16, <2>17 DEF Next
<1> QED BY <1>12

(* Rows, requests and the chat keep their types; a task that is there is    *)
(* filed under a Subject that is there too, whatever was deleted or copied  *)
(* in between (the checks and cascades of organizer.service.ts).            *)
THEOREM SujetsTypeCorrect == Spec => []TypeSujets
<1>1. Init => Types /\ Rangees
  BY TypesInit DEF Init, Rangees, Absente
<1>2. (Types /\ Rangees) /\ [Next]_vars => (Types /\ Rangees)'
  BY TypesStep, RangeesStep
<1>3. Types /\ Rangees => TypeSujets
  <2> SUFFICES ASSUME Types, Rangees PROVE TypeSujets
    OBVIOUS
  <2>1. ASSUME NEW x \in Requete, Occupee(x)
        PROVE  requetes[x].op \in Operation /\ requetes[x].reste # << >>
    <3>1. requetes[x] \in Demandee
      BY <2>1 DEF Types, Occupee
    <3> QED BY <3>1, LesRestes DEF Demandee
  <2> QED BY <2>1 DEF Types, Rangees, Presentes, TypeSujets, SujetOuAucun
<1> QED BY <1>1, <1>2, <1>3, PTL DEF Spec

-----------------------------------------------------------------------------
(* The last Subject.                                                        *)

(* As long as no request listed the Subjects while another one was about to *)
(* take one away, one at most is about to, and it leaves one.               *)
Seule ==
    ~chevauche =>
        /\ \A x, y \in Requete : AuPoint(x) /\ AuPoint(y) => x = y
        /\ \A x \in Requete :
              /\ Attend(x, "supprimer") => Existants \ {requetes[x].s} # {}
              /\ Attend(x, "archiver") => Actifs \ {requetes[x].s} # {}

(* Counting more than one Subject, another one than the one to delete is    *)
(* there.                                                                   *)
LEMMA UnAutre ==
    ASSUME NEW s, ResteUn(s) PROVE Existants \ {s} # {}
<1>1. IsFiniteSet(Existants)
  <2>1. IsFiniteSet(1..MaxSujets)
    BY SujetsAssumption, FS_Interval
  <2> QED BY <2>1, FS_Subset DEF Existants, Sujet
<1>2. Existants \ {s} = {} => Existants = {} \/ Existants = {s}
  OBVIOUS
<1>3. Cardinality({}) = 0 /\ Cardinality({s}) = 1
  BY FS_EmptySet, FS_Singleton
<1>4. Existants \ {s} = {} => Cardinality(Existants) = 0 \/ Cardinality(Existants) = 1
  BY <1>2, <1>3
<1> QED BY <1>4 DEF ResteUn

(* Deletion and archival alone take a Subject away, and listing alone is    *)
(* noted.                                                                   *)
LEMMA Lignes ==
    ASSUME Types, [Next]_vars
    PROVE  \/ \E x \in Requete : Supprimer(x) \/ Archiver(x) \/ Lister(x)
           \/ /\ Existants \subseteq Existants' /\ Actifs \subseteq Actifs'
              /\ chevauche' = chevauche /\ actifOte' = actifOte
<1> DEFINE Garde == /\ Existants \subseteq Existants' /\ Actifs \subseteq Actifs'
                    /\ chevauche' = chevauche /\ actifOte' = actifOte
<1>t. etat \in [Sujet -> EtatSujet]
  BY DEF Types
<1>1. etat' = etat /\ UNCHANGED histoire => Garde
  BY DEF Existants, Actifs, histoire
<1>2. ASSUME NEW s \in Sujet, etat' = [etat EXCEPT ![s] = "actif"], UNCHANGED histoire
      PROVE  Garde
  BY <1>2, <1>t DEF Existants, Actifs, histoire
<1>3. ASSUME NEW x \in Requete, Copier(x) PROVE Garde
  BY <1>2, <1>3 DEF Copier
<1>4. ASSUME NEW x \in Requete, Nommer(x) PROVE Garde
  BY <1>2, <1>4 DEF Nommer
<1>5. ASSUME NEW s \in Sujet, Creer(s) \/ CreerAuChat(s) \/ Desarchiver(s) PROVE Garde
  BY <1>2, <1>5 DEF Creer, CreerAuChat, Desarchiver
<1>6. ASSUME NEW x \in Requete, Traiter(x), ~(Supprimer(x) \/ Archiver(x) \/ Lister(x)),
             ~Copier(x), ~Nommer(x)
      PROVE  Garde
  BY <1>1, <1>6 DEF Traiter, DepuisOnglet, DepuisChat, Confirmer, Renoncer, LireTaches,
       DeplacerUne, lignes
<1>7. ASSUME \/ \E t \in Tache, s \in SujetOuAucun : Ajouter(t, s) \/ Deplacer(t, s)
             \/ \E t \in Tache : Convertir(t) \/ Achever(t)
             \/ Sonder \/ LireUneListe \/ RecevoirUne \/ \E s \in Sujet : Choisir(s)
             \/ UNCHANGED vars
      PROVE  Garde
  BY <1>1, <1>7 DEF Ajouter, Deplacer, Convertir, Achever, Sonder, LireUneListe, LireListe,
       RecevoirUne, Recevoir, Choisir, vars, lignes, histoire
<1> HIDE DEF Garde
<1>8. Garde \/ \E x \in Requete : Supprimer(x) \/ Archiver(x) \/ Lister(x)
  BY <1>3, <1>4, <1>5, <1>6, <1>7 DEF Next, SujetOuAucun
<1> QED BY <1>8 DEF Garde

(* A deletion or an archival leaves what its request has seen when it listed *)
(* the Subjects, since it was the only one about to take one away.           *)
LEMMA DernierStep ==
    ASSUME Types, Seule, DernierSujet, [Next]_vars
    PROVE  Seule' /\ DernierSujet'
<1>t. etat \in [Sujet -> EtatSujet] /\ requetes \in [Requete -> Demandee \cup {Libre}]
      /\ chevauche \in BOOLEAN /\ actifOte \in BOOLEAN
  BY DEF Types
<1>a. \A x \in Requete : /\ AuPoint(x) <=> AuBord(requetes[x])
                         /\ AuPoint(x)' <=> AuBord(requetes'[x])
  BY DEF AuPoint, Attend, Occupee, AuBord
<1>1. ASSUME NEW x \in Requete, Supprimer(x) PROVE Seule' /\ DernierSujet'
  <2>1. Attend(x, "supprimer") /\ requetes' = [requetes EXCEPT ![x] = Libre]
        /\ chevauche' = chevauche /\ actifOte' = (actifOte \/ Actifs = {requetes[x].s})
        /\ etat' = IF requetes[x].s \in Existants
                   THEN [etat EXCEPT ![requetes[x].s] = "supprime"] ELSE etat
    BY <1>1 DEF Supprimer, Terminer
  <2>2. Existants' = Existants \ {requetes[x].s} /\ Actifs' = Actifs \ {requetes[x].s}
    BY <1>t, <2>1 DEF Existants, Actifs
  <2>3. ~chevauche => \A y \in Requete : ~AuPoint(y)'
    BY <1>t, <1>a, <2>1 DEF Seule, AuPoint, AuBord
  <2>4. Seule'
    <3> SUFFICES ASSUME ~chevauche', NEW y \in Requete PROVE ~AuPoint(y)'
      BY DEF Seule, AuPoint
    <3> QED BY <2>1, <2>3
  <2>5. DernierSujet'
    BY <2>1, <2>2 DEF Seule, DernierSujet
  <2> QED BY <2>4, <2>5
<1>2. ASSUME NEW x \in Requete, Archiver(x) PROVE Seule' /\ DernierSujet'
  <2>1. Attend(x, "archiver") /\ requetes' = [requetes EXCEPT ![x] = Libre]
        /\ chevauche' = chevauche /\ actifOte' = actifOte
        /\ etat' = IF requetes[x].s \in Existants
                   THEN [etat EXCEPT ![requetes[x].s] = "archive"] ELSE etat
    BY <1>2 DEF Archiver, Terminer, histoire
  <2>2. Existants' = Existants /\ Actifs' = Actifs \ {requetes[x].s}
    BY <1>t, <2>1 DEF Existants, Actifs
  <2>3. ~chevauche => \A y \in Requete : ~AuPoint(y)'
    BY <1>t, <1>a, <2>1 DEF Seule, AuPoint, AuBord
  <2>4. Seule'
    <3> SUFFICES ASSUME ~chevauche', NEW y \in Requete PROVE ~AuPoint(y)'
      BY DEF Seule, AuPoint
    <3> QED BY <2>1, <2>3
  <2>5. DernierSujet'
    BY <2>1, <2>2 DEF Seule, DernierSujet
  <2> QED BY <2>4, <2>5
<1>3. ASSUME NEW x \in Requete, Lister(x) PROVE Seule' /\ DernierSujet'
  <2>1. /\ Existants' = Existants /\ Actifs' = Actifs /\ actifOte' = actifOte
        /\ chevauche' = (chevauche \/ \E y \in Requete : AuPoint(y))
    BY <1>3 DEF Lister, lignes, Existants, Actifs
  <2>2. DernierSujet'
    BY <2>1 DEF DernierSujet
  <2>3. CASE requetes' = requetes
    <3> SUFFICES ASSUME ~chevauche' PROVE Seule'
      BY <2>2 DEF Seule
    <3>1. \A y \in Requete : ~AuPoint(y)'
      BY <1>a, <2>1, <2>3
    <3> QED BY <3>1 DEF Seule, AuPoint
  <2>4. ASSUME NEW z \in Requete, NEW p \in Demandee \cup {Libre}, Bouge(z, p), ~chevauche'
        PROVE  Seule'
    <3>1. \A y \in Requete : ~AuBord(requetes[y])
      BY <1>a, <2>1, <2>4
    <3>2. requetes'[z] = p /\ \A y \in Requete \ {z} : requetes'[y] = requetes[y]
      BY <1>t, <2>4 DEF Bouge
    <3>3. \A y \in Requete : AuPoint(y)' => y = z
      BY <1>a, <3>1, <3>2
    <3>4. Attend(z, "supprimer")' => Existants \ {p.s} # {}
      <4> SUFFICES ASSUME Attend(z, "supprimer")' PROVE Existants \ {p.s} # {}
        OBVIOUS
      <4>1. AuBord(p) /\ Head(p.reste) = "supprimer"
        BY <3>2 DEF Attend, Occupee, AuBord
      <4> QED BY <2>4, <4>1, UnAutre DEF Bouge, Passe
    <3>5. Attend(z, "archiver")' => Actifs \ {p.s} # {}
      <4> SUFFICES ASSUME Attend(z, "archiver")' PROVE Actifs \ {p.s} # {}
        OBVIOUS
      <4>1. AuBord(p) /\ Head(p.reste) = "archiver"
        BY <3>2 DEF Attend, Occupee, AuBord
      <4> QED BY <2>4, <4>1 DEF Bouge, Passe, ResteActif
    <3> QED BY <2>1, <3>2, <3>3, <3>4, <3>5 DEF Seule, AuPoint
  <2>5. chevauche' => Seule'
    BY DEF Seule
  <2> QED BY <2>2, <2>3, <2>4, <2>5, Mouvement
<1>4. ASSUME Existants \subseteq Existants', Actifs \subseteq Actifs',
             chevauche' = chevauche, actifOte' = actifOte,
             \A x \in Requete : ~Lister(x)
      PROVE  Seule' /\ DernierSujet'
  <2>1. DernierSujet'
    BY <1>4 DEF DernierSujet
  <2>2. \A x \in Requete : AuBord(requetes'[x]) => requetes'[x] = requetes[x]
    <3>1. ASSUME NEW z \in Requete, NEW p \in Demandee \cup {Libre}, Bouge(z, p),
                 NEW x \in Requete, AuBord(requetes'[x])
          PROVE  requetes'[x] = requetes[x]
      BY <1>t, <1>4, <3>1 DEF Bouge
    <3> QED BY <3>1, Mouvement
  <2>3. \A x \in Requete : AuPoint(x)' => /\ AuPoint(x) /\ requetes'[x] = requetes[x]
                                          /\ Attend(x, "supprimer")' = Attend(x, "supprimer")
                                          /\ Attend(x, "archiver")' = Attend(x, "archiver")
    BY <1>a, <2>2 DEF Attend, Occupee
  <2>4. Seule'
    BY <1>4, <2>3 DEF Seule, AuPoint
  <2> QED BY <2>1, <2>4
<1> QED BY <1>1, <1>2, <1>3, <1>4, Lignes

(* "Un organizer doit garder au moins un Subject": for any numbers of       *)
(* requests, Subjects and tasks, the last Subject, and the last active one, *)
(* only go when requests overlapped, or when the active one is deleted      *)
(* beside archived ones (deleteSubject() and setSubjectArchived()).         *)
THEOREM DernierSujetCorrect == Spec => []DernierSujet
<1>1. Init => Types /\ Seule /\ DernierSujet
  <2> SUFFICES ASSUME Init PROVE Seule /\ DernierSujet
    BY TypesInit
  <2>1. 1 \in Sujet
    BY SujetsAssumption DEF Sujet
  <2>2. Seule
    BY DEF Init, Seule, AuPoint, Attend, Occupee
  <2>3. 1 \in Existants /\ 1 \in Actifs
    BY <2>1 DEF Init, Existants, Actifs
  <2> QED BY <2>2, <2>3 DEF DernierSujet
<1>2. (Types /\ Seule /\ DernierSujet) /\ [Next]_vars => (Types /\ Seule /\ DernierSujet)'
  BY TypesStep, DernierStep
<1> QED BY <1>1, <1>2, PTL DEF Spec

-----------------------------------------------------------------------------
(* The jobs. *)

USE TentativesAssumption, IncidentsAssumption

(* The tasks of this run of the job, if any, are in the database. *)
Ecrites(m) == job[m] \in {"notifier", "noter", "termine"}

(* A job, or a request about to queue the only one, has a message. *)
JobAvecMessage ==
    \A m \in Msg : /\ (m \in envoi \/ job[m] # "aucun") => message[m] # "jamais"
                   /\ m \in envoi => job[m] = "aucun"

(* TermineSansPerte, one step earlier: from the writing of the tasks on. *)
SansPerte ==
    \A m \in Msg : Ecrites(m) => \/ lots[m] > 0
                                 \/ m \in sansTache
                                 \/ message[m] = "efface"

(* DoublonParIncident, one step earlier: before the tasks of this run are  *)
(* written there is still one copy to spare.                               *)
DoublonBorne ==
    \A m \in Msg : lots[m] <= incidents + (IF Ecrites(m) THEN 1 ELSE 0)

(* A failed attempt changes the job of its message only, and leaves it     *)
(* waiting or failed.                                                      *)
LEMMA TentativeEchoueeEffet ==
    ASSUME TypeOK, NEW m \in Msg, TentativeEchouee(m)
    PROVE  /\ job' \in [Msg -> EtatJob]
           /\ job'[m] \in {"attente", "echoue"}
           /\ \A q \in Msg \ {m} : job'[q] = job[q]
           /\ tentatives' \in [Msg -> 0..MaxTentatives]
           /\ aSignaler' \subseteq Msg
<1> USE DEF TypeOK, TentativeEchouee, Avance, EtatJob
<1>1. CASE EncoreUneTentative(m)
  <2>1. tentatives[m] + 1 \in 0..MaxTentatives
    BY <1>1 DEF EncoreUneTentative
  <2> QED BY <1>1, <2>1
<1>2. CASE ~EncoreUneTentative(m)
  BY <1>2
<1> QED BY <1>1, <1>2

(* Every step keeps the types. *)
LEMMA OrganizerTypeStep == ASSUME TypeOK, [NextJobs]_varsJobs PROVE TypeOK'
<1> USE DEF TypeOK, organizer, resultat
<1>1. ASSUME NEW m \in Msg, Ecrire(m) PROVE TypeOK'
  BY <1>1 DEF Ecrire
<1>2. ASSUME NEW m \in Msg, Programmer(m) PROVE TypeOK'
  BY <1>2 DEF Programmer, EtatJob
<1>3. ASSUME NEW m \in Msg, ProgrammationEchouee(m) PROVE TypeOK'
  BY <1>3 DEF ProgrammationEchouee, Incident
<1>4. ASSUME NEW m \in Msg, EffacerMessage(m) PROVE TypeOK'
  BY <1>4 DEF EffacerMessage
<1>5. ASSUME NEW m \in Msg, Reessayer(m) PROVE TypeOK'
  BY <1>5 DEF Reessayer, EtatJob
<1>6. ASSUME NEW m \in Msg, Prendre(m) PROVE TypeOK'
  BY <1>6 DEF Prendre, Avance, EtatJob, Etape
<1>7. ASSUME NEW m \in Msg, LireMessage(m) PROVE TypeOK'
  BY <1>7 DEF LireMessage, Avance, EtatJob, Etape
<1>8. ASSUME NEW m \in Msg, ReponseVide(m) PROVE TypeOK'
  BY <1>8 DEF ReponseVide, Avance, EtatJob, Etape
<1>9. ASSUME NEW m \in Msg, ReponseTaches(m) PROVE TypeOK'
  BY <1>9 DEF ReponseTaches, Avance, EtatJob, Etape
<1>10. ASSUME NEW m \in Msg, PanneIA(m) PROVE TypeOK'
  BY <1>10, TentativeEchoueeEffet DEF PanneIA, PanneIARelancee
<1>11. ASSUME NEW m \in Msg, CreerTaches(m) PROVE TypeOK'
  BY <1>11 DEF CreerTaches, Avance, EtatJob, Etape
<1>12. ASSUME NEW m \in Msg, Notifier(m) PROVE TypeOK'
  BY <1>12 DEF Notifier, Avance, EtatJob, Etape
<1>13. ASSUME NEW m \in Msg, Noter(m) PROVE TypeOK'
  BY <1>13 DEF Noter, Avance, EtatJob, Etape
<1>14. ASSUME NEW m \in Msg, EcritureEchouee(m) PROVE TypeOK'
  BY <1>14, TentativeEchoueeEffet DEF EcritureEchouee, Incident
<1>15. ASSUME NEW m \in Msg, Signaler(m) PROVE TypeOK'
  BY <1>15 DEF Signaler
<1>16. ASSUME NEW m \in Msg, SignalementEchoue(m) PROVE TypeOK'
  BY <1>16 DEF SignalementEchoue, Incident
<1>17. CASE Arret
  BY <1>17 DEF Arret, Incident, EtatJob
<1>18. CASE UNCHANGED varsJobs
  BY <1>18 DEF varsJobs
<1> QED BY <1>1, <1>2, <1>3, <1>4, <1>5, <1>6, <1>7, <1>8, <1>9, <1>10, <1>11,
           <1>12, <1>13, <1>14, <1>15, <1>16, <1>17, <1>18 DEF NextJobs, AvancerJob

(* Every variable keeps its type; attemptsMade never passes "attempts". *)
THEOREM OrganizerTypeCorrect == SpecJobs => []TypeOK
<1>1. InitJobs => TypeOK
  <2> SUFFICES ASSUME InitJobs PROVE TypeOK
    OBVIOUS
  <2>1. job \in [Msg -> EtatJob] /\ message \in [Msg -> {"jamais", "present", "efface"}]
    BY DEF InitJobs, EtatJob
  <2>2. tentatives \in [Msg -> 0..MaxTentatives] /\ lots \in [Msg -> Nat]
    <3>1. 0 \in 0..MaxTentatives
      OBVIOUS
    <3> QED BY <3>1 DEF InitJobs
  <2>3. incidents \in 0..MaxIncidents /\ arrets \in 0..MaxArrets
    BY DEF InitJobs
  <2>4. personnel \in BOOLEAN /\ echecSubject \in BOOLEAN
    BY DEF InitJobs
  <2>5. envoi \subseteq Msg /\ aSignaler \subseteq Msg /\ sansTache \subseteq Msg
    BY DEF InitJobs
  <2> QED BY <2>1, <2>2, <2>3, <2>4, <2>5 DEF TypeOK
<1>2. TypeOK /\ [NextJobs]_varsJobs => TypeOK'
  BY OrganizerTypeStep
<1> QED BY <1>1, <1>2, PTL DEF SpecJobs

-----------------------------------------------------------------------------
(* Jobs, and requests about to queue one, always have a message. *)
LEMMA JobAvecMessageCorrect == SpecJobs => []JobAvecMessage
<1>1. InitJobs => JobAvecMessage
  BY DEF InitJobs, JobAvecMessage
<1>2. TypeOK /\ JobAvecMessage /\ [NextJobs]_varsJobs => JobAvecMessage'
  <2> SUFFICES ASSUME TypeOK, JobAvecMessage, [NextJobs]_varsJobs PROVE JobAvecMessage'
    OBVIOUS
  <2> USE DEF TypeOK, JobAvecMessage, organizer, resultat, Avance
  <2>1. ASSUME NEW m \in Msg, Ecrire(m) PROVE JobAvecMessage'
    BY <2>1 DEF Ecrire
  <2>2. ASSUME NEW m \in Msg, Programmer(m) PROVE JobAvecMessage'
    BY <2>2 DEF Programmer
  <2>3. ASSUME NEW m \in Msg, ProgrammationEchouee(m) PROVE JobAvecMessage'
    BY <2>3 DEF ProgrammationEchouee
  <2>4. ASSUME NEW m \in Msg, EffacerMessage(m) PROVE JobAvecMessage'
    BY <2>4 DEF EffacerMessage
  <2>5. ASSUME NEW m \in Msg, Reessayer(m) PROVE JobAvecMessage'
    BY <2>5 DEF Reessayer, Relancable
  <2>6. ASSUME NEW m \in Msg, Prendre(m) PROVE JobAvecMessage'
    BY <2>6 DEF Prendre
  <2>7. ASSUME NEW m \in Msg, job[m] \in Etape, UNCHANGED <<message, envoi>>,
               \A q \in Msg \ {m} : job'[q] = job[q]
        PROVE  JobAvecMessage'
    BY <2>7 DEF Etape
  <2>8. ASSUME NEW m \in Msg, AvancerJob(m) PROVE JobAvecMessage'
    <3>1. job[m] \in Etape /\ UNCHANGED <<message, envoi>>
      BY <2>8 DEF AvancerJob, LireMessage, ReponseVide, ReponseTaches, PanneIA, CreerTaches,
                  Notifier, Noter, EcritureEchouee, Etape
    <3>2. \A q \in Msg \ {m} : job'[q] = job[q]
      BY <2>8, TentativeEchoueeEffet
         DEF AvancerJob, LireMessage, ReponseVide, ReponseTaches, PanneIA, PanneIARelancee,
             CreerTaches, Notifier, Noter, EcritureEchouee
    <3> QED BY <2>7, <3>1, <3>2
  <2>9. ASSUME NEW m \in Msg, Signaler(m) \/ SignalementEchoue(m) PROVE JobAvecMessage'
    BY <2>9 DEF Signaler, SignalementEchoue
  <2>10. CASE Arret
    BY <2>10 DEF Arret, Actif, Etape
  <2>11. CASE UNCHANGED varsJobs
    BY <2>11 DEF varsJobs
  <2> QED BY <2>1, <2>2, <2>3, <2>4, <2>5, <2>6, <2>8, <2>9, <2>10, <2>11 DEF NextJobs
<1> QED BY <1>1, <1>2, OrganizerTypeCorrect, PTL DEF SpecJobs

(* What a step does to the runs that have written their tasks: it leaves   *)
(* them alone, or is the one that goes past the writing.                   *)
LEMMA EcritesEffet ==
    ASSUME TypeOK, [NextJobs]_varsJobs, NEW m \in Msg, Ecrites(m)'
    PROVE  \/ Ecrites(m)
           \/ LireMessage(m) /\ message[m] # "present"
           \/ ReponseVide(m)
           \/ CreerTaches(m)
<1> SUFFICES ASSUME ~Ecrites(m), job'[m] # job[m]
             PROVE  \/ LireMessage(m) /\ message[m] # "present"
                    \/ ReponseVide(m)
                    \/ CreerTaches(m)
  BY DEF Ecrites
<1> USE DEF TypeOK, Ecrites, Avance
<1>1. ~ \E q \in Msg : \/ Ecrire(q) \/ ProgrammationEchouee(q) \/ EffacerMessage(q)
                        \/ Signaler(q) \/ SignalementEchoue(q)
  BY DEF Ecrire, ProgrammationEchouee, EffacerMessage, Signaler,
         SignalementEchoue
<1>2. ~ \E q \in Msg : Programmer(q) \/ Reessayer(q) \/ Prendre(q) \/ ReponseTaches(q)
  BY DEF Programmer, Reessayer, Prendre, ReponseTaches
<1>3. ~ \E q \in Msg : PanneIA(q) \/ EcritureEchouee(q)
  BY TentativeEchoueeEffet DEF PanneIA, PanneIARelancee, EcritureEchouee
<1>4. ~ Arret
  BY DEF Arret
<1>5. ~ UNCHANGED varsJobs
  BY DEF varsJobs
<1>6. ~ \E q \in Msg : Notifier(q) \/ Noter(q)
  BY DEF Notifier, Noter
<1>7. PICK q \in Msg : LireMessage(q) \/ ReponseVide(q) \/ CreerTaches(q)
  BY <1>1, <1>2, <1>3, <1>4, <1>5, <1>6 DEF NextJobs, AvancerJob
<1>8. q = m
  BY <1>7 DEF LireMessage, ReponseVide, CreerTaches
<1> QED BY <1>7, <1>8 DEF LireMessage

(* Counters and histories only grow, and a deleted message stays deleted. *)
LEMMA Monotone ==
    ASSUME TypeOK, [NextJobs]_varsJobs, NEW m \in Msg
    PROVE  /\ lots'[m] >= lots[m]
           /\ m \in sansTache => m \in sansTache'
           /\ message[m] = "efface" => message'[m] = "efface"
<1> USE DEF TypeOK, organizer, resultat
<1>1. CASE \E q \in Msg : Ecrire(q) \/ EffacerMessage(q)
  BY <1>1 DEF Ecrire, EffacerMessage
<1>2. CASE \E q \in Msg : CreerTaches(q)
  BY <1>2 DEF CreerTaches
<1>3. CASE \E q \in Msg : ReponseVide(q)
  BY <1>3 DEF ReponseVide
<1>4. CASE UNCHANGED <<lots, sansTache, message>>
  BY <1>4
<1> QED BY <1>1, <1>2, <1>3, <1>4
        DEF NextJobs, varsJobs, AvancerJob, Programmer, ProgrammationEchouee, Reessayer, Prendre,
            LireMessage, ReponseTaches, PanneIA, Notifier, Noter, EcritureEchouee, Signaler,
            SignalementEchoue, Arret

(* A job that ended well has not lost its message, whatever was retried.   *)
THEOREM TermineSansPerteCorrect == SpecJobs => []TermineSansPerte
<1>1. InitJobs => SansPerte
  BY DEF InitJobs, SansPerte, Ecrites
<1>2. TypeOK /\ JobAvecMessage /\ SansPerte /\ [NextJobs]_varsJobs => SansPerte'
  <2> SUFFICES ASSUME TypeOK, JobAvecMessage, SansPerte, [NextJobs]_varsJobs,
                      NEW m \in Msg, Ecrites(m)'
               PROVE  (lots[m] > 0)' \/ (m \in sansTache)' \/ (message[m] = "efface")'
    BY DEF SansPerte
  <2>1. CASE Ecrites(m)
    <3>1. lots[m] > 0 \/ m \in sansTache \/ message[m] = "efface"
      BY <2>1 DEF SansPerte
    <3>2. lots[m] \in Nat /\ (lots[m] > 0 => lots'[m] > 0)
      <4>1. lots[m] \in Nat
        BY DEF TypeOK
      <4>2. lots'[m] \in Nat
        BY OrganizerTypeStep DEF TypeOK
      <4> QED BY <4>1, <4>2, Monotone
    <3> QED BY <3>1, <3>2, Monotone
  <2>2. CASE LireMessage(m) /\ message[m] # "present"
    BY <2>2 DEF LireMessage, TypeOK, JobAvecMessage, organizer
  <2>3. CASE ReponseVide(m)
    BY <2>3 DEF ReponseVide
  <2>4. CASE CreerTaches(m)
    BY <2>4 DEF CreerTaches, TypeOK
  <2> QED BY <2>1, <2>2, <2>3, <2>4, EcritesEffet
<1>3. SansPerte => TermineSansPerte
  BY DEF SansPerte, TermineSansPerte, Ecrites
<1> QED BY <1>1, <1>2, <1>3, OrganizerTypeCorrect, JobAvecMessageCorrect, PTL DEF SpecJobs

-----------------------------------------------------------------------------
(* The tasks of a message are never written more often than once plus once *)
(* per incident: retries alone do not duplicate them.                      *)
THEOREM DoublonParIncidentCorrect == SpecJobs => []DoublonParIncident
<1>1. InitJobs => DoublonBorne
  <2> SUFFICES ASSUME InitJobs, NEW m \in Msg
               PROVE  lots[m] <= incidents + (IF Ecrites(m) THEN 1 ELSE 0)
    BY DEF DoublonBorne
  <2>1. lots[m] = 0 /\ incidents = 0 /\ ~Ecrites(m)
    BY DEF InitJobs, Ecrites
  <2> QED BY <2>1
<1>2. TypeOK /\ JobAvecMessage /\ DoublonBorne /\ [NextJobs]_varsJobs => DoublonBorne'
  <2> SUFFICES ASSUME TypeOK, JobAvecMessage, DoublonBorne, [NextJobs]_varsJobs, NEW m \in Msg
               PROVE  (lots[m] <= incidents + (IF Ecrites(m) THEN 1 ELSE 0))'
    BY DEF DoublonBorne
  <2>0. /\ lots[m] \in Nat /\ incidents \in Nat
        /\ lots[m] <= incidents + (IF Ecrites(m) THEN 1 ELSE 0)
    BY DEF TypeOK, DoublonBorne
  <2>1. CASE UNCHANGED lots /\ incidents' = incidents + 1
    BY <2>0, <2>1
  <2>2. CASE UNCHANGED <<lots, incidents>> /\ (Ecrites(m) => Ecrites(m)')
    BY <2>0, <2>2
  <2>3. ASSUME NEW q \in Msg, CreerTaches(q)
        PROVE  (lots[m] <= incidents + (IF Ecrites(m) THEN 1 ELSE 0))'
    <3>1. CASE q = m
      <4>1. ~Ecrites(m) /\ Ecrites(m)'
        BY <2>3, <3>1 DEF CreerTaches, Ecrites, Avance, TypeOK
      <4>2. lots'[m] = lots[m] + 1 /\ incidents' = incidents
        BY <2>3, <3>1 DEF CreerTaches, TypeOK
      <4> QED BY <2>0, <4>1, <4>2
    <3>2. CASE q # m
      <4>1. job'[m] = job[m] /\ lots'[m] = lots[m] /\ incidents' = incidents
        BY <2>3, <3>2 DEF CreerTaches, Avance, TypeOK
      <4> QED BY <2>0, <4>1 DEF Ecrites
    <3> QED BY <3>1, <3>2
  <2>4. ASSUME NEW q \in Msg, \/ EcritureEchouee(q) \/ ProgrammationEchouee(q)
                              \/ SignalementEchoue(q) \/ Arret
        PROVE  UNCHANGED lots /\ incidents' = incidents + 1
    BY <2>4 DEF EcritureEchouee, ProgrammationEchouee, SignalementEchoue, Arret,
                Incident, resultat
  <2>5. ASSUME NEW q \in Msg, \/ Ecrire(q) \/ EffacerMessage(q) \/ Signaler(q)
        PROVE  UNCHANGED <<lots, incidents>> /\ (Ecrites(m) => Ecrites(m)')
    BY <2>5 DEF Ecrire, EffacerMessage, Signaler, Ecrites, resultat
  <2>6. ASSUME NEW q \in Msg, Programmer(q) \/ Reessayer(q) \/ Prendre(q)
        PROVE  UNCHANGED <<lots, incidents>> /\ (Ecrites(m) => Ecrites(m)')
    BY <2>6 DEF Programmer, Reessayer, Relancable, Prendre, Avance, Ecrites, resultat,
                TypeOK, JobAvecMessage
  <2>7. ASSUME NEW q \in Msg, \/ LireMessage(q) \/ ReponseVide(q) \/ ReponseTaches(q)
                              \/ Notifier(q) \/ Noter(q)
        PROVE  UNCHANGED <<lots, incidents>> /\ (Ecrites(m) => Ecrites(m)')
    BY <2>7 DEF LireMessage, ReponseVide, ReponseTaches, Notifier, Noter, Avance, Ecrites,
                resultat, TypeOK
  <2>8. ASSUME NEW q \in Msg, PanneIA(q)
        PROVE  UNCHANGED <<lots, incidents>> /\ (Ecrites(m) => Ecrites(m)')
    BY <2>8, TentativeEchoueeEffet DEF PanneIA, PanneIARelancee, Ecrites, resultat
  <2>9. CASE UNCHANGED varsJobs
    BY <2>2, <2>9 DEF varsJobs, resultat, Ecrites
  <2>10. CASE Arret
    BY <2>1, <2>10 DEF Arret, Incident, resultat
  <2> QED BY <2>1, <2>2, <2>3, <2>4, <2>5, <2>6, <2>7, <2>8, <2>9, <2>10 DEF NextJobs, AvancerJob
<1>3. TypeOK /\ DoublonBorne => DoublonParIncident
  <2> SUFFICES ASSUME TypeOK, DoublonBorne, NEW m \in Msg PROVE lots[m] <= incidents + 1
    BY DEF DoublonParIncident
  <2>1. lots[m] \in Nat /\ incidents \in Nat
    BY DEF TypeOK
  <2> QED BY <2>1 DEF DoublonBorne
<1> QED BY <1>1, <1>2, <1>3, OrganizerTypeCorrect, JobAvecMessageCorrect, PTL DEF SpecJobs

=============================================================================
