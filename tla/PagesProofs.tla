------------------------------ MODULE PagesProofs ------------------------------
(* Proofs about what a page shows, for any pages with these habits and any *)
(* number of keys, calls, changes, mountings and failures.  They use the   *)
(* safety part of Spec only.                                               *)
EXTENDS Pages, FiniteSetTheorems, WellFoundedInduction, TLAPS

USE PagesAssumption

Changement == 1..MaxChangements
Gestes == {"recharge", "rechargeToujours", "reponse", "apres", "optimiste"}

(* The points a call goes through. *)
Point == [genre : {"aucune", "lecture"} \cup Gestes, cle : Cle, vive : BOOLEAN,
          reste : SUBSET Changement, moi : SUBSET Changement,
          vus : (SUBSET Changement) \cup {Nul}]

Types ==
    /\ TypeOK
    /\ requetes \in [Requete -> Point]
    /\ changements \in Nat /\ montages \in Nat /\ echecs \in Nat
    /\ reussis \subseteq Changement

(* What a call carries, against what the server holds under its key: an    *)
(* answer of the past; a gesture of the page, the part of it already done  *)
(* and, from the first of its calls on, an answer that includes that part. *)
Repond(q, s) == q.vus # Nul /\ q.vus \subseteq s /\ q.moi \ q.reste \subseteq q.vus
Tient(q, s) ==
    IF q.genre \in Gestes
    THEN /\ q.genre \in ecran.actes
         /\ q.moi # {} /\ q.reste \subseteq q.moi /\ q.moi \ q.reste \subseteq s
         /\ q.reste = q.moi \/ Repond(q, s)
    ELSE /\ q.reste = {} /\ q.moi = {}
         /\ q.vus # Nul => q.vus \subseteq s
AppelsJustes == \A r \in Requete : Tient(requetes[r], serveur[requetes[r].cle])

(* AfficheDuChoix, for the cache and the calls of the mounting as well; a  *)
(* gesture is made on something that is shown.                             *)
ClesJustes ==
    /\ \A k \in Cle : cache[k] # Nul => cache[k].cle = k
    /\ ecran.choix # "garde" => \A r \in Requete : requetes[r].vive => requetes[r].cle = cle
    /\ \A r \in Requete : requetes[r].vive /\ requetes[r].genre \in Gestes => affiche # Nul
    /\ AfficheDuChoix

(* RienDInvente, key by key: data include nothing but what the server holds*)
(* under their key; with what is still to be done under that key, for a    *)
(* page that applies its changes before the call.                          *)
Dus(q, k) == UNION {q[r].reste : r \in {x \in Requete : q[x].cle = k}}
Fonde(d, s, q) ==
    d # Nul => \/ d.vus \subseteq s[d.cle]
               \/ "optimiste" \in ecran.actes /\ d.vus \subseteq s[d.cle] \cup Dus(q, d.cle)
Fondes ==
    "optimiste" \notin ecran.actes \/ echecs = 0
        => /\ Fonde(affiche, serveur, requetes)
           /\ \A k \in Cle : Fonde(cache[k], serveur, requetes)

(* PropreVisible, while a call of the mounting is under way: it will show  *)
(* the changes made so far when it ends, or they are shown already.        *)
Montre(n, d) == d # Nul /\ n \subseteq d.vus
Montrera(q, n, d) ==
    CASE q.genre = "lecture" -> q.vus = Nul \/ n \subseteq q.vus
      [] q.genre = "reponse" -> q.reste = q.moi \/ n \subseteq q.vus
      [] q.genre = "apres" -> Montre(n, d)
      [] q.genre = "optimiste" -> Montre(n \cup q.moi, d)
      [] OTHER -> TRUE
UnParUn ==
    monte /\ ecran.choix # "garde" =>
        /\ reussis \subseteq serveur[cle]
        /\ ~croisees => \A r, s \in Requete : requetes[r].vive /\ requetes[s].vive => r = s
        /\ echecs = 0 /\ ~croisees =>
              /\ \A r \in Requete : requetes[r].vive => Montrera(requetes[r], reussis, affiche)
              /\ (\A r \in Requete : ~requetes[r].vive) => Montre(reussis, affiche)

IInv == Types /\ AppelsJustes /\ ClesJustes /\ Fondes /\ UnParUn

-----------------------------------------------------------------------------
(* The calls, one by one *)

(* A nonempty set of numbers has a least one.                              *)
LEMMA MinDans ==
    ASSUME NEW S, S \subseteq Nat, S # {}
    PROVE  Min(S) \in S
<1>1. PICK k \in S : \A j \in S : ~(<<j, k>> \in OpToRel(<, Nat))
  BY NatLessThanWellFounded, WFMin
<1>2. \A j \in S : ~(j < k)
  BY <1>1 DEF OpToRel
<1>3. \E x \in S : \A y \in S : x =< y
  BY <1>2
<1> QED BY <1>3 DEF Min

(* A reading that starts.                                                  *)
LEMMA LectureFaite ==
    ASSUME NEW k \in Cle, NEW v \in BOOLEAN
    PROVE  /\ Aucune \in Point /\ Aucune.genre = "aucune" /\ ~Aucune.vive
           /\ Aucune.reste = {} /\ Aucune.moi = {} /\ Aucune.vus = Nul
           /\ Lecture(k, v) \in Point
           /\ Lecture(k, v).genre = "lecture" /\ Lecture(k, v).cle = k
           /\ Lecture(k, v).vive = v /\ Lecture(k, v).reste = {}
           /\ Lecture(k, v).moi = {} /\ Lecture(k, v).vus = Nul
<1>1. Aucune \in Point
  BY DEF Aucune, Point
<1>2. /\ Aucune.genre = "aucune" /\ ~Aucune.vive
      /\ Aucune.reste = {} /\ Aucune.moi = {} /\ Aucune.vus = Nul
  BY DEF Aucune
<1> HIDE DEF Aucune
<1> QED BY <1>1, <1>2 DEF Lecture, Point

(* The calls of a page that goes are left to themselves.                   *)
LEMMA DelaisseesFaites ==
    ASSUME requetes \in [Requete -> Point]
    PROVE  /\ Delaissees \in [Requete -> Point]
           /\ \A r \in Requete :
                 /\ Delaissees[r] \in Point /\ ~Delaissees[r].vive
                 /\ Delaissees[r].genre = requetes[r].genre
                 /\ Delaissees[r].cle = requetes[r].cle
                 /\ Delaissees[r].reste = requetes[r].reste
                 /\ Delaissees[r].moi = requetes[r].moi
                 /\ Delaissees[r].vus = requetes[r].vus
<1>1. Aucune \in Point /\ ~Aucune.vive
  BY DEF Aucune, Point
<1> HIDE DEF Aucune
<1>2. ASSUME NEW r \in Requete
      PROVE  /\ Delaissees[r] \in Point /\ ~Delaissees[r].vive
             /\ Delaissees[r].genre = requetes[r].genre /\ Delaissees[r].cle = requetes[r].cle
             /\ Delaissees[r].reste = requetes[r].reste /\ Delaissees[r].moi = requetes[r].moi
             /\ Delaissees[r].vus = requetes[r].vus
  <2>1. CASE requetes[r] = Aucune
    BY <1>1, <2>1 DEF Delaissees, Libre
  <2>2. CASE requetes[r] # Aucune
    <3>1. Delaissees[r] = [requetes[r] EXCEPT !.vive = FALSE]
      BY <2>2 DEF Delaissees, Libre
    <3>2. requetes[r] \in Point
      OBVIOUS
    <3> QED BY <3>1, <3>2 DEF Point
  <2> QED BY <2>1, <2>2
<1>3. Delaissees = [r \in Requete |-> Delaissees[r]]
  BY DEF Delaissees
<1> QED BY <1>2, <1>3

(* The overlap of two live calls is seen when it happens.                  *)
LEMMA VuesUneParUne ==
    ASSUME NEW q \in [Requete -> Point], Appels(q), croisees \in BOOLEAN, ~croisees'
    PROVE  /\ ~croisees
           /\ \A r, s \in Requete : q[r].vive /\ q[s].vive => r = s
<1> DEFINE V == Vives(q)
<1>1. V = {r \in Requete : q[r].vive}
  BY DEF Vives, Aucune, Point
<1>2. ~croisees /\ ~(Cardinality(V) > 1)
  BY DEF Appels
<1>3. IsFiniteSet(V) /\ Cardinality(V) \in Nat
  BY <1>1, FS_Subset, FS_CardinalityType
<1>4. ASSUME NEW r \in V, NEW s \in V, r # s PROVE FALSE
  <2>1. IsFiniteSet({s}) /\ Cardinality({s}) = 1
    BY FS_Singleton
  <2>2. IsFiniteSet({s} \cup {r}) /\ Cardinality({s} \cup {r}) = 2
    BY ONLY <2>1, <1>4, FS_AddElement
  <2>3. {s} \cup {r} \in SUBSET V
    OBVIOUS
  <2>4. Cardinality({s} \cup {r}) <= Cardinality(V)
    BY <1>3, <2>3, FS_Subset
  <2> QED BY <1>2, <1>3, <2>2, <2>4
<1> QED BY <1>1, <1>2, <1>4

(* One call takes the place of another.                                    *)
LEMMA Remplace ==
    ASSUME Types, NEW r \in Requete, NEW q \in Point, Appels([requetes EXCEPT ![r] = q])
    PROVE  /\ requetes' \in [Requete -> Point]
           /\ requetes'[r] = q /\ \A s \in Requete \ {r} : requetes'[s] = requetes[s]
           /\ croisees' \in BOOLEAN
           /\ ~croisees' => /\ ~croisees
                            /\ \A x, y \in Requete :
                                  requetes'[x].vive /\ requetes'[y].vive => x = y
<1> DEFINE f == [requetes EXCEPT ![r] = q]
<1>1. f \in [Requete -> Point] /\ f[r] = q /\ \A s \in Requete \ {r} : f[s] = requetes[s]
  BY DEF Types
<1>2. requetes' = f /\ croisees \in BOOLEAN /\ Appels(f)
  BY DEF Appels, Types, TypeOK
<1> HIDE DEF f
<1>3. croisees' \in BOOLEAN
  BY <1>2 DEF Appels
<1>4. ASSUME ~croisees'
      PROVE  ~croisees /\ \A x, y \in Requete : f[x].vive /\ f[y].vive => x = y
  BY <1>1, <1>2, <1>4, VuesUneParUne
<1> QED BY <1>1, <1>2, <1>3, <1>4

-----------------------------------------------------------------------------
(* Types *)

(* The types, at the start.                                                *)
LEMMA TypesDebut == Init => Types
<1> SUFFICES ASSUME Init PROVE Types
  OBVIOUS
<1>1. Aucune \in Point /\ Aucune.vive = FALSE
  BY DEF Aucune, Point
<1>2. TypeOK
  BY <1>1 DEF Init, TypeOK
<1> QED BY <1>1, <1>2 DEF Init, Types

(* The steps, with the mountings and the ends of gestures told apart.      *)
Etape ==
    \/ \E k \in Cle : MonterSur(k)
    \/ \E k \in Cle : monte /\ ecran.choix = "garde" /\ Garder(k)
    \/ \E k \in Cle : Autrui(k)
    \/ Quitter
    \/ Sonder
    \/ \E r \in Requete : Lire(r) \/ Arriver(r) \/ Ecrire(r) \/ Aboutir(r)
    \/ \E r \in Requete : EchouerLecture(r) \/ EchouerActe(r)
    \/ \E a \in Gestes : Agir(a)
    \/ UNCHANGED vars

(* Every step is one of them.                                              *)
LEMMA Etapes == [Next]_vars => Etape
BY DEF Next, Etape, Monter, Choisir, Remplacer, Gestes

(* What follows the calls of a gesture, case by case.                      *)
LEMMA Suites ==
    ASSUME Types, NEW r \in Requete, Aboutir(r)
    PROVE  /\ requetes[r].genre \in Gestes /\ requetes[r].reste = {}
           /\ \/ /\ requetes[r].genre \in {"recharge", "rechargeToujours"}
                 /\ Appels([requetes EXCEPT ![r] = Relire(r)])
                 /\ UNCHANGED <<affiche, cache>>
              \/ /\ requetes[r].genre = "reponse"
                 /\ Appels([requetes EXCEPT ![r] = Aucune])
                 /\ Afficher(IF requetes[r].vive THEN Donnees(requetes[r].cle, requetes[r].vus)
                                                 ELSE affiche)
                 /\ Memoriser(Donnees(requetes[r].cle, requetes[r].vus))
              \/ /\ requetes[r].genre = "apres"
                 /\ Appels([requetes EXCEPT ![r] = Aucune])
                 /\ requetes[r].vive /\ SurPlace(requetes[r].moi)
              \/ /\ requetes[r].genre \in {"apres", "optimiste"}
                 /\ Appels([requetes EXCEPT ![r] = Aucune])
                 /\ requetes[r].genre = "apres" => ~requetes[r].vive
                 /\ UNCHANGED <<affiche, cache>>
<1>1. requetes[r] \in Point
  BY DEF Types
<1>2. requetes[r].genre \in Gestes /\ requetes[r].reste = {}
  BY <1>1 DEF Aboutir, Acte, Point
<1>3. Suivre(r)
  BY DEF Aboutir
<1>4. CASE requetes[r].genre \in {"recharge", "rechargeToujours"}
  BY <1>2, <1>3, <1>4 DEF Suivre
<1>5. CASE requetes[r].genre = "reponse"
  BY <1>2, <1>3, <1>5 DEF Suivre
<1>6. CASE requetes[r].genre = "apres"
  BY <1>2, <1>3, <1>6 DEF Suivre
<1>7. CASE requetes[r].genre = "optimiste"
  BY <1>2, <1>3, <1>7 DEF Suivre
<1> QED BY <1>2, <1>4, <1>5, <1>6, <1>7 DEF Gestes

(* The data put in the cache go under their own key.                       *)
LEMMA Memorise ==
    ASSUME Types, NEW d \in Vu, Memoriser(d)
    PROVE  /\ cache' \in [Cle -> Vu \cup {Nul}]
           /\ \A k \in Cle : cache'[k] = cache[k] \/ (k = d.cle /\ cache'[k] = d)
<1>1. cache \in [Cle -> Vu \cup {Nul}] /\ d.cle \in Cle
  BY DEF Types, TypeOK, Vu
<1> QED BY <1>1 DEF Memoriser

(* A change applied to what is shown, and to the cache for some pages.     *)
LEMMA SurPlaceFait ==
    ASSUME Types, affiche # Nul, NEW n \in SUBSET Changement, SurPlace(n)
    PROVE  /\ affiche \in Vu /\ affiche' \in Vu /\ affiche' # Nul
           /\ affiche'.cle = affiche.cle /\ affiche'.vus = affiche.vus \cup n
           /\ cache' \in [Cle -> Vu \cup {Nul}]
           /\ \A k \in Cle : cache'[k] = cache[k] \/ (k = affiche.cle /\ cache'[k] = affiche')
<1> DEFINE d == Appliquee(n)
<1>1. affiche \in Vu
  BY DEF Types, TypeOK
<1>2. d \in Vu /\ d.cle = affiche.cle /\ d.vus = affiche.vus \cup n
  BY <1>1 DEF Appliquee, Donnees, Vu, Changement
<1>3. affiche' = d /\ (Memoriser(d) \/ cache' = cache)
  BY DEF SurPlace, Afficher
<1> HIDE DEF d
<1>4. CASE Memoriser(d)
  BY <1>1, <1>2, <1>3, <1>4, Memorise
<1>5. CASE cache' = cache
  BY <1>1, <1>2, <1>3, <1>5 DEF Types, TypeOK
<1> QED BY <1>3, <1>4, <1>5

(* The data of an answer.                                                  *)
LEMMA Reponse ==
    ASSUME NEW q \in Point, q.vus # Nul
    PROVE  /\ Donnees(q.cle, q.vus) \in Vu /\ Donnees(q.cle, q.vus) # Nul
           /\ Donnees(q.cle, q.vus).cle = q.cle /\ Donnees(q.cle, q.vus).vus = q.vus
<1>1. q.cle \in Cle /\ q.vus \in SUBSET Changement
  BY DEF Point
<1> QED BY <1>1 DEF Donnees, Vu, Changement

(* The server does the next call of a gesture.                             *)
LEMMA EcritFait ==
    ASSUME Types, NEW r \in Requete, Ecrire(r)
    PROVE  LET q == requetes[r]
               e == Min(q.reste)
           IN  /\ q \in Point /\ q.genre \in Gestes /\ e \in q.reste
               /\ serveur' \in [Cle -> SUBSET Changement]
               /\ serveur'[q.cle] = serveur[q.cle] \cup {e}
               /\ \A k \in Cle \ {q.cle} : serveur'[k] = serveur[k]
               /\ requetes' \in [Requete -> Point]
               /\ \A s \in Requete \ {r} : requetes'[s] = requetes[s]
               /\ requetes'[r].genre = q.genre /\ requetes'[r].cle = q.cle
               /\ requetes'[r].vive = q.vive /\ requetes'[r].moi = q.moi
               /\ requetes'[r].reste = q.reste \ {e} /\ requetes'[r].vus = serveur'[q.cle]
               /\ \A s \in Requete : requetes'[s].vive = requetes[s].vive
<1> DEFINE e == Min(requetes[r].reste)
           k == requetes[r].cle
<1>1. /\ requetes \in [Requete -> Point] /\ requetes[r] \in Point
      /\ serveur \in [Cle -> SUBSET Changement]
  BY DEF Types, TypeOK, Changement
<1>2. /\ requetes[r].genre \in Gestes /\ requetes[r].reste # {} /\ k \in Cle
      /\ requetes[r].reste \in SUBSET Changement
  BY <1>1 DEF Ecrire, Acte, Point
<1>3. e \in requetes[r].reste
  BY <1>2, MinDans DEF Changement
<1>4. /\ serveur' = [serveur EXCEPT ![k] = @ \cup {e}]
      /\ requetes' = [requetes EXCEPT ![r].reste = @ \ {e}, ![r].vus = serveur'[k]]
  BY DEF Ecrire
<1> HIDE DEF e
<1>5. /\ serveur' \in [Cle -> SUBSET Changement] /\ serveur'[k] = serveur[k] \cup {e}
      /\ \A j \in Cle \ {k} : serveur'[j] = serveur[j]
  BY <1>1, <1>2, <1>3, <1>4
<1> DEFINE q0 == [requetes[r] EXCEPT !.reste = @ \ {e}]
           f == [requetes EXCEPT ![r] = q0]
           q == [q0 EXCEPT !.vus = serveur'[k]]
<1>6. /\ q0 \in Point /\ q0.genre = requetes[r].genre /\ q0.cle = k
      /\ q0.vive = requetes[r].vive /\ q0.moi = requetes[r].moi
      /\ q0.reste = requetes[r].reste \ {e}
  BY <1>1, <1>2 DEF Point
<1>7. f \in [Requete -> Point] /\ f[r] = q0 /\ \A s \in Requete \ {r} : f[s] = requetes[s]
  BY <1>1, <1>6
<1>8. requetes' = [f EXCEPT ![r] = [f[r] EXCEPT !.vus = serveur'[k]]]
  BY <1>4
<1> HIDE DEF q0, f
<1>9. /\ q \in Point /\ q.genre = requetes[r].genre /\ q.cle = k
      /\ q.vive = requetes[r].vive /\ q.moi = requetes[r].moi
      /\ q.reste = requetes[r].reste \ {e} /\ q.vus = serveur'[k]
  BY <1>2, <1>5, <1>6 DEF Point
<1>10. /\ requetes' \in [Requete -> Point] /\ requetes'[r] = q
      /\ \A s \in Requete \ {r} : requetes'[s] = requetes[s]
  BY <1>7, <1>8, <1>9
<1> HIDE DEF q
<1>11. \A s \in Requete : requetes'[s].vive = requetes[s].vive
  BY <1>9, <1>10
<1>12. /\ requetes'[r].genre = requetes[r].genre /\ requetes'[r].cle = k
       /\ requetes'[r].vive = requetes[r].vive /\ requetes'[r].moi = requetes[r].moi
       /\ requetes'[r].reste = requetes[r].reste \ {e} /\ requetes'[r].vus = serveur'[k]
  BY <1>9, <1>10
<1> QED BY <1>1, <1>2, <1>3, <1>5, <1>10, <1>11, <1>12 DEF e, k

(* A gesture of the user begins.                                           *)
LEMMA AgiFait ==
    ASSUME Types, NEW a \in Gestes, Agir(a)
    PROVE  LET n == changements + 1 .. changements + ecran.ecritures
           IN  /\ monte /\ affiche # Nul /\ a \in ecran.actes
               /\ n \in SUBSET Changement /\ n # {} /\ changements' \in Nat
               /\ \E r \in Requete : \E q \in Point :
                     /\ Libre(r) /\ Appels([requetes EXCEPT ![r] = q])
                     /\ q.genre = a /\ q.cle = cle /\ q.vive
                     /\ q.reste = n /\ q.moi = n /\ q.vus = Nul
               /\ IF a = "optimiste" THEN SurPlace(n) ELSE UNCHANGED <<affiche, cache>>
               /\ UNCHANGED <<ecran, serveur, monte, cle, montages, echecs, reussis>>
<1> DEFINE n == changements + 1 .. changements + ecran.ecritures
           q == [Lecture(cle, TRUE) EXCEPT !.genre = a, !.reste = n, !.moi = n]
<1>1. /\ ecran \in Ecran /\ cle \in Cle /\ changements \in Nat
      /\ ecran.ecritures \in {1, 2} /\ MaxChangements \in Nat
  BY DEF Types, TypeOK
<1>2. n \in SUBSET Changement /\ n # {} /\ changements' \in Nat
  <2>1. /\ changements + ecran.ecritures =< MaxChangements
        /\ changements' = changements + ecran.ecritures
    BY DEF Agir
  <2>2. changements + 1 \in n
    BY <1>1
  <2>3. \A x \in n : x \in 1..MaxChangements
    BY <1>1, <2>1
  <2> QED BY <1>1, <2>1, <2>2, <2>3 DEF Changement
<1>3. PICK r \in Requete : Libre(r) /\ Appels([requetes EXCEPT ![r] = q])
  BY DEF Agir
<1>4. /\ monte /\ affiche # Nul /\ a \in ecran.actes
      /\ IF a = "optimiste" THEN SurPlace(n) ELSE UNCHANGED <<affiche, cache>>
      /\ UNCHANGED <<ecran, serveur, monte, cle, montages, echecs, reussis>>
  BY DEF Agir
<1> HIDE DEF n
<1>5. /\ q \in Point /\ q.genre = a /\ q.cle = cle /\ q.vive
      /\ q.reste = n /\ q.moi = n /\ q.vus = Nul
  <2> DEFINE p == Lecture(cle, TRUE)
  <2>1. p \in Point /\ p.cle = cle /\ p.vive /\ p.vus = Nul
    BY <1>1, LectureFaite
  <2>2. q = [p EXCEPT !.genre = a, !.reste = n, !.moi = n]
    OBVIOUS
  <2> HIDE DEF p, q
  <2> QED BY <1>2, <2>1, <2>2 DEF Point
<1> HIDE DEF q
<1>6. \E s \in Requete : \E p \in Point :
         /\ Libre(s) /\ Appels([requetes EXCEPT ![s] = p])
         /\ p.genre = a /\ p.cle = cle /\ p.vive
         /\ p.reste = n /\ p.moi = n /\ p.vus = Nul
  BY <1>3, <1>5
<1> QED BY <1>2, <1>4, <1>6 DEF n

(* The server answers a reading.                                           *)
LEMMA LuFait ==
    ASSUME Types, NEW r \in Requete, Lire(r)
    PROVE  LET q == requetes[r]
           IN  /\ q \in Point /\ q.genre = "lecture" /\ q.vus = Nul
               /\ requetes' \in [Requete -> Point]
               /\ \A s \in Requete \ {r} : requetes'[s] = requetes[s]
               /\ requetes'[r].genre = "lecture" /\ requetes'[r].cle = q.cle
               /\ requetes'[r].vive = q.vive /\ requetes'[r].moi = q.moi
               /\ requetes'[r].reste = q.reste /\ requetes'[r].vus = serveur[q.cle]
               /\ \A s \in Requete : requetes'[s].vive = requetes[s].vive
<1>1. /\ requetes \in [Requete -> Point] /\ requetes[r] \in Point
      /\ requetes[r].genre = "lecture" /\ requetes[r].vus = Nul
      /\ serveur[requetes[r].cle] \in SUBSET Changement
  BY DEF Types, TypeOK, Lire, Point, Changement
<1> DEFINE q == [requetes[r] EXCEPT !.vus = serveur[requetes[r].cle]]
<1>2. requetes' = [requetes EXCEPT ![r] = q]
  BY DEF Lire
<1>3. /\ q \in Point /\ q.genre = "lecture" /\ q.cle = requetes[r].cle
      /\ q.vive = requetes[r].vive /\ q.moi = requetes[r].moi
      /\ q.reste = requetes[r].reste /\ q.vus = serveur[requetes[r].cle]
  BY <1>1 DEF Point
<1> HIDE DEF q
<1>4. /\ requetes' \in [Requete -> Point] /\ requetes'[r] = q
      /\ \A s \in Requete \ {r} : requetes'[s] = requetes[s]
  BY <1>1, <1>2, <1>3
<1>5. \A s \in Requete : requetes'[s].vive = requetes[s].vive
  BY <1>3, <1>4
<1> QED BY <1>1, <1>3, <1>4, <1>5

(* TypeOK, with the calls and the counters. *)
LEMMA TypesPas ==
    ASSUME IInv, Etape
    PROVE  Types'
<1> USE DEF IInv
<1>0. /\ ecran \in Ecran /\ monte \in BOOLEAN /\ cle \in Cle /\ croisees \in BOOLEAN
      /\ serveur \in [Cle -> SUBSET Changement]
      /\ affiche \in Vu \cup {Nul} /\ cache \in [Cle -> Vu \cup {Nul}]
      /\ requetes \in [Requete -> Point] /\ reussis \in SUBSET Changement
      /\ changements \in Nat /\ montages \in Nat /\ echecs \in Nat
      /\ \A r \in Requete : requetes[r].vive => monte
      /\ ~monte => affiche = Nul
  BY DEF Types, TypeOK, Changement
<1>00. /\ MaxChangements \in Nat /\ Aucune \in Point /\ Aucune.vive = FALSE
       /\ \A e \in Ecran : e.ecritures \in {1, 2} /\ e.actes \subseteq Gestes
  BY LectureFaite DEF Gestes, Aucune
<1> HIDE DEF Aucune
<1>1. ASSUME NEW k \in Cle, MonterSur(k) PROVE Types'
  <2>1. PICK r \in Requete : requetes' = [Delaissees EXCEPT ![r] = Lecture(k, TRUE)]
    BY <1>1 DEF MonterSur
  <2>2. requetes' \in [Requete -> Point]
    BY <1>0, <2>1, DelaisseesFaites, LectureFaite
  <2>3. affiche' \in Vu \cup {Nul} /\ monte' = TRUE /\ reussis' = {} /\ croisees' = FALSE
    BY <1>0, <1>1 DEF MonterSur, Afficher
  <2>4. cle' = k /\ montages' = montages + 1
    BY <1>1 DEF MonterSur
  <2>5. UNCHANGED <<ecran, serveur, cache, changements, echecs>>
    BY <1>1 DEF MonterSur
  <2>6. TypeOK'
    BY <1>0, <2>3, <2>4, <2>5 DEF TypeOK, Changement
  <2> QED BY <1>0, <2>2, <2>3, <2>4, <2>5, <2>6 DEF Types
<1>2. ASSUME NEW k \in Cle, monte, Garder(k) PROVE Types'
  <2>1. PICK r \in Requete : Appels([requetes EXCEPT ![r] = Lecture(k, TRUE)])
    BY <1>2 DEF Garder
  <2>2. requetes' \in [Requete -> Point] /\ croisees' \in BOOLEAN
    BY <1>0, <2>1, LectureFaite DEF Appels
  <2> QED BY <1>0, <1>2, <2>2 DEF Garder, Types, TypeOK, Changement
<1>3. ASSUME NEW k \in Cle, Autrui(k) PROVE Types'
  <2>1. serveur' \in [Cle -> SUBSET Changement]
    BY <1>0, <1>00, <1>3 DEF Autrui, Changement
  <2> QED BY <1>0, <1>3, <2>1 DEF Autrui, Types, TypeOK, Changement
<1>4. CASE Quitter
  <2>1. requetes' \in [Requete -> Point] /\ \A r \in Requete : ~requetes'[r].vive
    BY <1>0, <1>4, DelaisseesFaites DEF Quitter
  <2> QED BY <1>0, <1>4, <2>1 DEF Quitter, Types, TypeOK, Changement, compteurs
<1>5. CASE Sonder
  <2>1. PICK r \in Requete : Appels([requetes EXCEPT ![r] = Lecture(cle, TRUE)])
    BY <1>5 DEF Sonder
  <2>2. requetes' \in [Requete -> Point] /\ croisees' \in BOOLEAN
    BY <1>0, <2>1, LectureFaite DEF Appels
  <2> QED BY <1>0, <1>5, <2>2 DEF Sonder, Types, TypeOK, Changement, compteurs
<1>6. ASSUME NEW r \in Requete, Lire(r) PROVE Types'
  <2>1. /\ requetes' \in [Requete -> Point]
        /\ \A s \in Requete : requetes'[s].vive => requetes[s].vive
    BY <1>6, LuFait
  <2> QED BY <1>0, <1>6, <2>1 DEF Lire, Types, TypeOK, Changement, compteurs
<1>7. ASSUME NEW r \in Requete, Arriver(r) PROVE Types'
  <2> DEFINE d == Donnees(requetes[r].cle, requetes[r].vus)
  <2>1. d \in Vu /\ Memoriser(d) /\ affiche' = IF requetes[r].vive THEN d ELSE affiche
    BY <1>0, <1>7, Reponse DEF Arriver, Afficher
  <2> HIDE DEF d
  <2>2. requetes' = [requetes EXCEPT ![r] = Aucune] /\ croisees' \in BOOLEAN
    BY <1>0, <1>7 DEF Arriver, Appels
  <2>3. cache' \in [Cle -> Vu \cup {Nul}] /\ affiche' \in Vu \cup {Nul}
    BY <1>0, <2>1, Memorise
  <2>4. /\ requetes' \in [Requete -> Point]
        /\ \A s \in Requete : requetes'[s].vive => requetes[s].vive
    BY <1>0, <1>00, <2>2
  <2> QED BY <1>0, <1>7, <2>1, <2>2, <2>3, <2>4 DEF Arriver, Types, TypeOK, Changement, compteurs
<1>8. ASSUME NEW r \in Requete, Ecrire(r) PROVE Types'
  <2>1. /\ serveur' \in [Cle -> SUBSET Changement]
        /\ requetes' \in [Requete -> Point]
        /\ \A s \in Requete : requetes'[s].vive = requetes[s].vive
    BY <1>8, EcritFait
  <2> QED BY <1>0, <1>8, <2>1 DEF Ecrire, Types, TypeOK, Changement, compteurs
<1>9. ASSUME NEW r \in Requete, Aboutir(r) PROVE Types'
  <2>0. /\ requetes[r] \in Point /\ requetes[r].genre \in Gestes
        /\ requetes[r].moi \in SUBSET Changement
        /\ requetes[r].vive \in BOOLEAN /\ requetes[r].cle \in Cle
    BY <1>0, <1>9, Suites DEF Point
  <2>1. reussis' \in SUBSET Changement
    BY <1>0, <1>9, <2>0 DEF Aboutir
  <2>2. ASSUME NEW q \in Point, Appels([requetes EXCEPT ![r] = q]), q.vive => requetes[r].vive,
               affiche' \in Vu \cup {Nul}, cache' \in [Cle -> Vu \cup {Nul}],
               ~monte => affiche' = Nul
        PROVE  Types'
    <3>1. requetes' = [requetes EXCEPT ![r] = q] /\ croisees' \in BOOLEAN
      BY <1>0, <2>2 DEF Appels
    <3>2. /\ requetes' \in [Requete -> Point]
          /\ \A s \in Requete : requetes'[s].vive => requetes[s].vive
      BY <1>0, <2>2, <3>1
    <3> QED BY <1>0, <1>9, <2>1, <2>2, <3>1, <3>2
            DEF Aboutir, Types, TypeOK, Changement, compteurs
  <2>3. CASE /\ Appels([requetes EXCEPT ![r] = Relire(r)])
             /\ UNCHANGED <<affiche, cache>>
    BY <1>0, <2>0, <2>2, <2>3, LectureFaite DEF Relire
  <2>4. CASE /\ requetes[r].genre = "reponse"
             /\ Appels([requetes EXCEPT ![r] = Aucune])
             /\ Afficher(IF requetes[r].vive THEN Donnees(requetes[r].cle, requetes[r].vus)
                                             ELSE affiche)
             /\ Memoriser(Donnees(requetes[r].cle, requetes[r].vus))
    <3> DEFINE d == Donnees(requetes[r].cle, requetes[r].vus)
    <3>0. requetes[r].vus # Nul
      BY <1>9, <2>0, Suites DEF AppelsJustes, Tient, Repond
    <3>1. d \in Vu /\ Memoriser(d) /\ affiche' = IF requetes[r].vive THEN d ELSE affiche
      BY <2>0, <2>4, <3>0, Reponse DEF Afficher
    <3> HIDE DEF d
    <3>2. cache' \in [Cle -> Vu \cup {Nul}] /\ affiche' \in Vu \cup {Nul}
      BY <1>0, <3>1, Memorise
    <3> QED BY <1>0, <1>00, <2>2, <2>4, <3>1, <3>2
  <2>5. CASE /\ Appels([requetes EXCEPT ![r] = Aucune])
             /\ requetes[r].vive /\ SurPlace(requetes[r].moi)
    <3>1. affiche # Nul
      BY <2>0, <2>5 DEF ClesJustes
    <3> QED BY <1>0, <1>00, <2>0, <2>2, <2>5, <3>1, SurPlaceFait
  <2>6. CASE Appels([requetes EXCEPT ![r] = Aucune]) /\ UNCHANGED <<affiche, cache>>
    BY <1>0, <1>00, <2>2, <2>6
  <2> QED BY <1>9, <2>3, <2>4, <2>5, <2>6, Suites
<1>10. ASSUME NEW r \in Requete, EchouerLecture(r) \/ EchouerActe(r) PROVE Types'
  <2>0. requetes[r].cle \in Cle /\ requetes[r].vive \in BOOLEAN
    BY <1>0 DEF Point
  <2>1. /\ Relire(r) \in Point /\ Relire(r).vive = requetes[r].vive
    BY <2>0, LectureFaite DEF Relire
  <2>2. PICK q \in {Relire(r), Aucune} : Appels([requetes EXCEPT ![r] = q])
    BY <1>10 DEF EchouerLecture, EchouerActe
  <2>3. requetes' = [requetes EXCEPT ![r] = q] /\ croisees' \in BOOLEAN
    BY <1>0, <2>2 DEF Appels
  <2>4. /\ requetes' \in [Requete -> Point]
        /\ \A s \in Requete : requetes'[s].vive => requetes[s].vive
    BY <1>0, <1>00, <2>1, <2>3
  <2>5. /\ UNCHANGED <<ecran, serveur, monte, cle, affiche, cache>>
        /\ UNCHANGED <<changements, montages, reussis>> /\ echecs' = echecs + 1
    BY <1>10 DEF EchouerLecture, EchouerActe, Echouer
  <2> QED BY <1>0, <2>3, <2>4, <2>5 DEF Types, TypeOK, Changement
<1>11. ASSUME NEW a \in Gestes, Agir(a) PROVE Types'
  <2> DEFINE n == changements + 1 .. changements + ecran.ecritures
  <2>1. /\ n \in SUBSET Changement /\ monte /\ affiche # Nul /\ changements' \in Nat
        /\ IF a = "optimiste" THEN SurPlace(n) ELSE UNCHANGED <<affiche, cache>>
        /\ UNCHANGED <<ecran, serveur, monte, cle, montages, echecs, reussis>>
    BY <1>11, AgiFait
  <2>2. requetes' \in [Requete -> Point] /\ croisees' \in BOOLEAN
    BY <1>11, AgiFait, Remplace
  <2> HIDE DEF n
  <2>3. affiche' \in Vu \cup {Nul} /\ cache' \in [Cle -> Vu \cup {Nul}]
    BY <1>0, <2>1, SurPlaceFait
  <2> QED BY <1>0, <2>1, <2>2, <2>3 DEF Types, TypeOK, Changement
<1>12. CASE UNCHANGED vars
  BY <1>0, <1>12 DEF vars, Types, TypeOK, Changement, compteurs
<1> QED BY <1>1, <1>2, <1>3, <1>4, <1>5, <1>6, <1>7, <1>8, <1>9, <1>10, <1>11, <1>12 DEF Etape

-----------------------------------------------------------------------------
(* The invariants, one by one *)

(* What every step keeps: the page, and what the server holds.             *)
LEMMA Reste ==
    ASSUME Types, Etape
    PROVE  ecran' = ecran /\ \A k \in Cle : serveur[k] \subseteq serveur'[k]
<1>1. ASSUME NEW k \in Cle, Autrui(k) PROVE \A j \in Cle : serveur[j] \subseteq serveur'[j]
  BY <1>1 DEF Autrui, Types, TypeOK
<1>2. ASSUME NEW r \in Requete, Ecrire(r) PROVE \A j \in Cle : serveur[j] \subseteq serveur'[j]
  <2>1. requetes[r].cle \in Cle
    BY DEF Types, Point
  <2> QED BY <1>2, <2>1, EcritFait
<1>3. \/ UNCHANGED serveur
      \/ \E k \in Cle : Autrui(k)
      \/ \E r \in Requete : Ecrire(r)
  BY DEF Etape, MonterSur, Garder, Quitter, Sonder, Lire, Arriver, Aboutir, EchouerLecture,
         EchouerActe, Agir, vars
<1>4. UNCHANGED ecran
  BY DEF Etape, MonterSur, Garder, Autrui, Quitter, Sonder, Lire, Arriver, Ecrire, Aboutir,
         EchouerLecture, EchouerActe, Agir, vars
<1> QED BY <1>1, <1>2, <1>3, <1>4

(* A call that only loses its page, or nothing, is as coherent as before.  *)
Meme(p, q) == /\ p.genre = q.genre /\ p.cle = q.cle /\ p.reste = q.reste
              /\ p.moi = q.moi /\ p.vus = q.vus
LEMMA JusteEncore ==
    ASSUME Types, AppelsJustes, ecran' = ecran, \A k \in Cle : serveur[k] \subseteq serveur'[k],
           \A s \in Requete : \/ Meme(requetes'[s], requetes[s])
                              \/ Tient(requetes'[s], serveur'[requetes'[s].cle])
    PROVE  AppelsJustes'
<1>1. ASSUME NEW s \in Requete, Meme(requetes'[s], requetes[s])
      PROVE  Tient(requetes'[s], serveur'[requetes'[s].cle])
  <2>1. Tient(requetes[s], serveur[requetes[s].cle]) /\ requetes[s].cle \in Cle
    BY DEF AppelsJustes, Types, Point
  <2>2. ASSUME NEW p, NEW q, NEW u, NEW v, Meme(p, q), u \subseteq v, Tient(q, u)
        PROVE  Tient(p, v)
    <3>1. /\ p.genre = q.genre /\ p.reste = q.reste /\ p.moi = q.moi /\ p.vus = q.vus
      BY <2>2 DEF Meme
    <3>2. CASE p.genre \in Gestes
      BY <2>2, <3>1, <3>2 DEF Tient, Repond
    <3>3. CASE p.genre \notin Gestes
      BY <2>2, <3>1, <3>3 DEF Tient
    <3> QED BY <3>2, <3>3
  <2>3. requetes'[s].cle = requetes[s].cle
    BY <1>1 DEF Meme
  <2>4. serveur[requetes[s].cle] \subseteq serveur'[requetes[s].cle]
    BY <2>1
  <2>5. Tient(requetes'[s], serveur'[requetes[s].cle])
    BY <1>1, <2>1, <2>2, <2>4
  <2> QED BY <2>3, <2>5
<1>2. ASSUME NEW s \in Requete PROVE Tient(requetes'[s], serveur'[requetes'[s].cle])
  BY <1>1
<1> QED BY <1>2 DEF AppelsJustes, Tient, Repond

(* Every step keeps the calls coherent with the server.                    *)
LEMMA JustesPas ==
    ASSUME IInv, Etape
    PROVE  AppelsJustes'
<1>0. /\ Types /\ AppelsJustes
      /\ requetes \in [Requete -> Point] /\ cle \in Cle
      /\ ecran' = ecran /\ \A k \in Cle : serveur[k] \subseteq serveur'[k]
  BY Reste DEF IInv, Types, TypeOK
<1>00. \A k \in Cle : \A v \in BOOLEAN : \A s :
          Tient(Lecture(k, v), s) /\ Tient(Aucune, s)
  BY LectureFaite DEF Tient, Gestes
<1>1. ASSUME NEW k \in Cle, MonterSur(k) PROVE AppelsJustes'
  <2>1. PICK r \in Requete : requetes' = [Delaissees EXCEPT ![r] = Lecture(k, TRUE)]
    BY <1>1 DEF MonterSur
  <2>2. /\ requetes'[r] = Lecture(k, TRUE)
        /\ \A s \in Requete \ {r} : requetes'[s] = Delaissees[s]
    BY <1>0, <2>1, DelaisseesFaites
  <2>3. \A s \in Requete : s = r \/ Meme(requetes'[s], requetes[s])
    BY <1>0, <2>2, DelaisseesFaites DEF Meme
  <2> DEFINE q == Lecture(k, TRUE)
  <2>4. q.genre = "lecture" /\ q.reste = {} /\ q.moi = {} /\ q.vus = Nul
    BY LectureFaite
  <2>5. requetes'[r] = q
    BY <2>2
  <2> HIDE DEF q
  <2>6. Tient(requetes'[r], serveur'[requetes'[r].cle])
    BY <2>4, <2>5 DEF Tient, Gestes
  <2> QED BY <1>0, <2>3, <2>6, JusteEncore
<1>2. ASSUME NEW r \in Requete, NEW q \in Point, Appels([requetes EXCEPT ![r] = q]),
             Tient(q, serveur'[q.cle])
      PROVE  AppelsJustes'
  <2>1. requetes'[r] = q /\ \A s \in Requete \ {r} : requetes'[s] = requetes[s]
    BY <1>0, <1>2, Remplace
  <2>2. \A s \in Requete : s = r \/ Meme(requetes'[s], requetes[s])
    BY <2>1 DEF Meme
  <2> QED BY <1>0, <1>2, <2>1, <2>2, JusteEncore
<1>3. ASSUME NEW k \in Cle, Garder(k) PROVE AppelsJustes'
  BY <1>00, <1>2, <1>3, LectureFaite DEF Garder
<1>4. ASSUME NEW k \in Cle, Autrui(k) PROVE AppelsJustes'
  <2>1. \A s \in Requete : Meme(requetes'[s], requetes[s])
    BY <1>4 DEF Autrui, Meme
  <2> QED BY <1>0, <2>1, JusteEncore
<1>5. CASE Quitter
  <2>1. \A s \in Requete : Meme(requetes'[s], requetes[s])
    BY <1>0, <1>5, DelaisseesFaites DEF Quitter, Meme
  <2> QED BY <1>0, <2>1, JusteEncore
<1>6. CASE Sonder
  BY ZenonT(40), <1>0, <1>00, <1>2, <1>6, LectureFaite DEF Sonder
<1>7. ASSUME NEW r \in Requete, Lire(r) PROVE AppelsJustes'
  <2>1. /\ requetes'[r].genre = "lecture" /\ requetes'[r].cle \in Cle
        /\ requetes'[r].reste = requetes[r].reste /\ requetes'[r].moi = requetes[r].moi
        /\ requetes'[r].vus = serveur[requetes'[r].cle]
        /\ requetes[r].genre = "lecture"
        /\ \A s \in Requete \ {r} : requetes'[s] = requetes[s]
    BY <1>0, <1>7, LuFait DEF Point
  <2>2. requetes[r].reste = {} /\ requetes[r].moi = {}
    BY <1>0, <2>1 DEF AppelsJustes, Tient, Gestes
  <2>3. Tient(requetes'[r], serveur'[requetes'[r].cle])
    BY <1>0, <2>1, <2>2 DEF Tient, Gestes
  <2>4. \A s \in Requete : s = r \/ Meme(requetes'[s], requetes[s])
    BY <2>1 DEF Meme
  <2> QED BY <1>0, <2>3, <2>4, JusteEncore
<1>8. ASSUME NEW r \in Requete, Arriver(r) \/ EchouerLecture(r) PROVE AppelsJustes'
  BY <1>0, <1>00, <1>2, <1>8, LectureFaite DEF Arriver, EchouerLecture
<1>9. ASSUME NEW r \in Requete, Ecrire(r) PROVE AppelsJustes'
  <2> DEFINE e == Min(requetes[r].reste)
             k == requetes[r].cle
  <2>1. /\ k \in Cle /\ requetes[r].genre \in Gestes /\ e \in requetes[r].reste
        /\ serveur'[k] = serveur[k] \cup {e} /\ serveur'[k] \in SUBSET Changement
        /\ requetes'[r].genre = requetes[r].genre /\ requetes'[r].cle = k
        /\ requetes'[r].moi = requetes[r].moi
        /\ requetes'[r].reste = requetes[r].reste \ {e} /\ requetes'[r].vus = serveur'[k]
        /\ \A s \in Requete \ {r} : requetes'[s] = requetes[s]
    BY <1>0, <1>9, EcritFait DEF Point
  <2> HIDE DEF e
  <2>2. Tient(requetes[r], serveur[k])
    BY <1>0 DEF AppelsJustes
  <2>3. serveur'[k] # Nul
    BY <2>1 DEF Changement
  <2> HIDE DEF k
  <2>4. Tient(requetes'[r], serveur'[k])
    BY <1>0, <2>1, <2>2, <2>3 DEF Tient, Repond
  <2>5. \A s \in Requete : s = r \/ Meme(requetes'[s], requetes[s])
    BY <2>1 DEF Meme
  <2> QED BY <1>0, <2>1, <2>4, <2>5, JusteEncore
<1>10. ASSUME NEW r \in Requete, Aboutir(r) \/ EchouerActe(r) PROVE AppelsJustes'
  <2>1. /\ Relire(r) \in Point /\ \A s : Tient(Relire(r), s)
    <3>1. requetes[r].cle \in Cle /\ requetes[r].vive \in BOOLEAN
      BY <1>0 DEF Point
    <3> QED BY <1>00, <3>1, LectureFaite DEF Relire
  <2>2. PICK q \in {Relire(r), Aucune} : Appels([requetes EXCEPT ![r] = q])
    BY <1>0, <1>10, Suites DEF EchouerActe
  <2>3. Aucune \in Point /\ \A s : Tient(Aucune, s)
    BY <1>0, <1>00, LectureFaite
  <2>4. q \in Point /\ Tient(q, serveur'[q.cle])
    BY <2>1, <2>3
  <2> QED BY <1>2, <2>2, <2>4
<1>11. ASSUME NEW a \in Gestes, Agir(a) PROVE AppelsJustes'
  <2> DEFINE n == changements + 1 .. changements + ecran.ecritures
  <2>0. a \in ecran.actes /\ n # {}
    BY <1>0, <1>11, AgiFait
  <2>1. PICK r \in Requete : \E q \in Point :
            /\ Appels([requetes EXCEPT ![r] = q])
            /\ q.genre = a /\ q.reste = n /\ q.moi = n
    BY <1>0, <1>11, AgiFait
  <2>2. PICK q \in Point : /\ Appels([requetes EXCEPT ![r] = q])
                          /\ q.genre = a /\ q.reste = n /\ q.moi = n
    BY <2>1
  <2>3. Tient(q, serveur'[q.cle])
    BY <2>0, <2>2 DEF Tient
  <2> QED BY <1>2, <2>2, <2>3
<1>12. CASE UNCHANGED vars
  <2>1. \A s \in Requete : Meme(requetes'[s], requetes[s])
    BY <1>12 DEF vars, Meme
  <2> QED BY <1>0, <2>1, JusteEncore
<1> QED BY <1>1, <1>3, <1>4, <1>5, <1>6, <1>7, <1>8, <1>9, <1>10, <1>11, <1>12 DEF Etape

(* The calls of a gesture are done, and have been answered.                *)
LEMMA AboutiFait ==
    ASSUME Types, AppelsJustes, NEW r \in Requete, Aboutir(r)
    PROVE  /\ requetes[r] \in Point /\ requetes[r].genre \in Gestes
           /\ requetes[r].genre \in ecran.actes
           /\ requetes[r].cle \in Cle /\ requetes[r].vive \in BOOLEAN
           /\ requetes[r].reste = {} /\ requetes[r].moi \in SUBSET Changement
           /\ requetes[r].moi # {} /\ requetes[r].moi \subseteq serveur[requetes[r].cle]
           /\ requetes[r].vus # Nul /\ requetes[r].vus \subseteq serveur[requetes[r].cle]
           /\ requetes[r].moi \subseteq requetes[r].vus
           /\ UNCHANGED <<ecran, serveur, monte, cle, changements, montages, echecs>>
           /\ reussis' = IF requetes[r].vive THEN reussis \cup requetes[r].moi ELSE reussis
<1>1. requetes[r] \in Point /\ requetes[r].genre \in Gestes /\ requetes[r].reste = {}
  BY Suites DEF Types
<1>2. Tient(requetes[r], serveur[requetes[r].cle])
  BY DEF AppelsJustes
<1>3. /\ UNCHANGED <<ecran, serveur, monte, cle, changements, montages, echecs>>
      /\ reussis' = IF requetes[r].vive THEN reussis \cup requetes[r].moi ELSE reussis
  BY DEF Aboutir, compteurs
<1>4. /\ requetes[r].cle \in Cle /\ requetes[r].vive \in BOOLEAN
      /\ requetes[r].moi \in SUBSET Changement
  BY <1>1 DEF Point
<1> QED BY <1>1, <1>2, <1>3, <1>4 DEF Tient, Repond

(* On the same key, the live calls are those of before or new ones of that *)
(* key, and what is shown is as before or has that key.                    *)
Suit(p, q) == /\ q.vive /\ p.cle = q.cle
              /\ p.genre \in Gestes => q.genre \in Gestes
LEMMA ClesEncore ==
    ASSUME ClesJustes, ecran' = ecran, cle' = cle,
           \A k \in Cle : cache'[k] # Nul => cache'[k].cle = k,
           \/ affiche' = affiche
           \/ affiche' # Nul /\ (ecran.choix # "garde" => affiche'.cle = cle),
           \A s \in Requete : requetes'[s].vive =>
               \/ Suit(requetes'[s], requetes[s])
               \/ /\ requetes'[s].cle = cle
                  /\ requetes'[s].genre \in Gestes => affiche # Nul
    PROVE  ClesJustes'
<1>1. ecran.choix # "garde" => \A s \in Requete : requetes'[s].vive => requetes'[s].cle = cle
  BY DEF ClesJustes, Suit
<1>2. \A s \in Requete : requetes'[s].vive /\ requetes'[s].genre \in Gestes => affiche' # Nul
  BY DEF ClesJustes, Suit
<1>3. ecran.choix # "garde" /\ affiche' # Nul => affiche'.cle = cle
  BY DEF ClesJustes, AfficheDuChoix
<1> QED BY <1>1, <1>2, <1>3 DEF ClesJustes, AfficheDuChoix

(* Every step keeps each key with its own data.                            *)
LEMMA ClesPas ==
    ASSUME IInv, Etape
    PROVE  ClesJustes'
<1>0. /\ Types /\ ClesJustes /\ AppelsJustes
      /\ requetes \in [Requete -> Point] /\ cle \in Cle /\ cache \in [Cle -> Vu \cup {Nul}]
      /\ ecran' = ecran
      /\ \A k \in Cle : cache[k] # Nul => cache[k].cle = k
  BY Reste DEF IInv, Types, TypeOK, ClesJustes
<1>1. ASSUME NEW k \in Cle, MonterSur(k) PROVE ClesJustes'
  <2>1. PICK r \in Requete : requetes' = [Delaissees EXCEPT ![r] = Lecture(k, TRUE)]
    BY <1>1 DEF MonterSur
  <2>2. /\ requetes'[r] = Lecture(k, TRUE)
        /\ \A s \in Requete \ {r} : ~requetes'[s].vive
    BY <1>0, <2>1, DelaisseesFaites
  <2> DEFINE q == Lecture(k, TRUE)
  <2>3. q.genre \notin Gestes /\ q.cle = k
    BY LectureFaite DEF Gestes
  <2>4. requetes'[r] = q
    BY <2>2
  <2> HIDE DEF q
  <2>5. \A s \in Requete : requetes'[s].vive => /\ requetes'[s].cle = k
                                                /\ requetes'[s].genre \notin Gestes
    BY <2>2, <2>3, <2>4
  <2>6. affiche' = cache[k] /\ cle' = k /\ cache' = cache
    BY <1>1 DEF MonterSur, Afficher
  <2> QED BY <1>0, <2>5, <2>6 DEF ClesJustes, AfficheDuChoix
<1>2. ASSUME NEW k \in Cle, ecran.choix = "garde", Garder(k) PROVE ClesJustes'
  <2>1. PICK r \in Requete : Appels([requetes EXCEPT ![r] = Lecture(k, TRUE)])
    BY <1>2 DEF Garder
  <2> DEFINE q == Lecture(k, TRUE)
  <2>2. q \in Point /\ q.genre \notin Gestes
    BY LectureFaite DEF Gestes
  <2>3. Appels([requetes EXCEPT ![r] = q])
    BY <2>1
  <2> HIDE DEF q
  <2>4. requetes'[r] = q /\ \A s \in Requete \ {r} : requetes'[s] = requetes[s]
    BY <1>0, <2>2, <2>3, Remplace
  <2>5. cache' = cache /\ affiche' = affiche
    BY <1>2 DEF Garder
  <2> QED BY <1>0, <1>2, <2>2, <2>4, <2>5 DEF ClesJustes, AfficheDuChoix
<1>3. ASSUME NEW r \in Requete, NEW q \in Point, Appels([requetes EXCEPT ![r] = q]), cle' = cle,
             q.vive => \/ Suit(q, requetes[r])
                       \/ q.cle = cle /\ (q.genre \in Gestes => affiche # Nul),
             \/ affiche' = affiche
             \/ affiche' # Nul /\ (ecran.choix # "garde" => affiche'.cle = cle),
             \A k \in Cle : cache'[k] # Nul => cache'[k].cle = k
      PROVE  ClesJustes'
  <2>1. requetes'[r] = q /\ \A s \in Requete \ {r} : requetes'[s] = requetes[s]
    BY <1>0, <1>3, Remplace
  <2>2. \A s \in Requete : requetes'[s].vive =>
               \/ Suit(requetes'[s], requetes[s])
               \/ /\ requetes'[s].cle = cle
                  /\ requetes'[s].genre \in Gestes => affiche # Nul
    BY <1>3, <2>1 DEF Suit
  <2> QED BY <1>0, <1>3, <2>2, ClesEncore
<1>4. ASSUME cle' = cle, cache' = cache, affiche' = affiche,
             \A s \in Requete : requetes'[s].vive => Suit(requetes'[s], requetes[s])
      PROVE  ClesJustes'
  BY <1>0, <1>4, ClesEncore
<1>5. ASSUME NEW k \in Cle, Autrui(k) PROVE ClesJustes'
  <2>1. cle' = cle /\ cache' = cache /\ affiche' = affiche /\ requetes' = requetes
    BY <1>5 DEF Autrui
  <2> QED BY <1>4, <2>1 DEF Suit
<1>6. CASE Quitter
  <2>1. \A s \in Requete : ~requetes'[s].vive
    BY <1>0, <1>6, DelaisseesFaites DEF Quitter
  <2>2. affiche' = Nul /\ cache' = cache
    BY <1>6 DEF Quitter
  <2> QED BY <1>0, <2>1, <2>2 DEF ClesJustes, AfficheDuChoix
<1>7. CASE Sonder
  <2>1. PICK r \in Requete : Appels([requetes EXCEPT ![r] = Lecture(cle, TRUE)])
    BY <1>7 DEF Sonder
  <2>2. /\ Lecture(cle, TRUE) \in Point
        /\ Lecture(cle, TRUE).genre = "lecture" /\ Lecture(cle, TRUE).cle = cle
    BY <1>0, LectureFaite
  <2>3. cle' = cle /\ cache' = cache /\ affiche' = affiche
    BY <1>7 DEF Sonder
  <2> HIDE DEF Lecture
  <2> QED BY <1>0, <1>3, <2>1, <2>2, <2>3 DEF Gestes
<1>8. ASSUME NEW r \in Requete, Lire(r) PROVE ClesJustes'
  <2>1. /\ requetes'[r].genre = requetes[r].genre /\ requetes'[r].cle = requetes[r].cle
        /\ requetes'[r].vive = requetes[r].vive
        /\ \A s \in Requete \ {r} : requetes'[s] = requetes[s]
    BY <1>0, <1>8, LuFait
  <2>2. cle' = cle /\ cache' = cache /\ affiche' = affiche
    BY <1>8 DEF Lire
  <2>3. \A s \in Requete : requetes'[s].vive => Suit(requetes'[s], requetes[s])
    BY <2>1 DEF Suit
  <2> QED BY <1>4, <2>2, <2>3
<1>9. ASSUME NEW r \in Requete, Ecrire(r) PROVE ClesJustes'
  <2>1. /\ requetes'[r].genre = requetes[r].genre /\ requetes'[r].cle = requetes[r].cle
        /\ requetes'[r].vive = requetes[r].vive
        /\ \A s \in Requete \ {r} : requetes'[s] = requetes[s]
    BY <1>0, <1>9, EcritFait
  <2>2. cle' = cle /\ cache' = cache /\ affiche' = affiche
    BY <1>9 DEF Ecrire
  <2>3. \A s \in Requete : requetes'[s].vive => Suit(requetes'[s], requetes[s])
    BY <2>1 DEF Suit
  <2> QED BY <1>4, <2>2, <2>3
<1>10. ASSUME NEW r \in Requete, Appels([requetes EXCEPT ![r] = Aucune]), cle' = cle,
              requetes[r].vus # Nul,
              LET d == Donnees(requetes[r].cle, requetes[r].vus)
              IN  Memoriser(d) /\ affiche' = IF requetes[r].vive THEN d ELSE affiche
       PROVE  ClesJustes'
  <2> DEFINE d == Donnees(requetes[r].cle, requetes[r].vus)
  <2>1. /\ d \in Vu /\ d # Nul /\ d.cle = requetes[r].cle
        /\ Memoriser(d) /\ affiche' = IF requetes[r].vive THEN d ELSE affiche
    BY <1>0, <1>10, Reponse
  <2> HIDE DEF d
  <2>2. \A k \in Cle : cache'[k] # Nul => cache'[k].cle = k
    BY <1>0, <2>1, Memorise
  <2>3. Aucune \in Point /\ ~Aucune.vive
    BY <1>0, LectureFaite
  <2>4. \/ affiche' = affiche
        \/ affiche' # Nul /\ (ecran.choix # "garde" => affiche'.cle = cle)
    BY <1>0, <2>1 DEF ClesJustes
  <2> QED BY <1>3, <1>10, <2>2, <2>3, <2>4
<1>11. ASSUME NEW r \in Requete, Arriver(r) PROVE ClesJustes'
  BY <1>10, <1>11 DEF Arriver, Afficher
<1>12. ASSUME NEW n \in SUBSET Changement, affiche # Nul, SurPlace(n)
       PROVE  /\ \A k \in Cle : cache'[k] # Nul => cache'[k].cle = k
              /\ affiche' # Nul /\ (ecran.choix # "garde" => affiche'.cle = cle)
  BY <1>0, <1>12, SurPlaceFait DEF ClesJustes, AfficheDuChoix
<1>13. ASSUME NEW r \in Requete, Aboutir(r) PROVE ClesJustes'
  <2>1. /\ requetes[r] \in Point /\ cle' = cle /\ requetes[r].genre \in Gestes
        /\ requetes[r].moi \in SUBSET Changement /\ requetes[r].reste = {}
        /\ requetes[r].cle \in Cle /\ requetes[r].vive \in BOOLEAN
        /\ requetes[r].vus # Nul
    BY <1>0, <1>13, AboutiFait
  <2>2. Aucune \in Point /\ ~Aucune.vive
    BY <1>0, LectureFaite
  <2>3. CASE /\ Appels([requetes EXCEPT ![r] = Relire(r)])
             /\ UNCHANGED <<affiche, cache>>
    <3>1. /\ Relire(r) \in Point /\ Relire(r).genre = "lecture"
          /\ Relire(r).cle = requetes[r].cle /\ Relire(r).vive = requetes[r].vive
      BY <2>1, LectureFaite DEF Relire
    <3>2. Relire(r).vive => Suit(Relire(r), requetes[r])
      BY <3>1 DEF Suit, Gestes
    <3> QED BY <1>0, <1>3, <2>1, <2>3, <3>1, <3>2
  <2>4. CASE /\ Appels([requetes EXCEPT ![r] = Aucune])
             /\ Afficher(IF requetes[r].vive THEN Donnees(requetes[r].cle, requetes[r].vus)
                                             ELSE affiche)
             /\ Memoriser(Donnees(requetes[r].cle, requetes[r].vus))
    BY <1>10, <2>1, <2>4 DEF Afficher
  <2>5. CASE /\ Appels([requetes EXCEPT ![r] = Aucune])
             /\ requetes[r].vive /\ SurPlace(requetes[r].moi)
    <3>1. affiche # Nul
      BY <1>0, <2>1, <2>5 DEF ClesJustes
    <3> QED BY <1>3, <1>12, <2>1, <2>2, <2>5, <3>1
  <2>6. CASE Appels([requetes EXCEPT ![r] = Aucune]) /\ UNCHANGED <<affiche, cache>>
    BY <1>0, <1>3, <2>1, <2>2, <2>6
  <2> QED BY <1>0, <1>13, <2>3, <2>4, <2>5, <2>6, Suites
<1>14. ASSUME NEW r \in Requete, EchouerLecture(r) \/ EchouerActe(r) PROVE ClesJustes'
  <2>1. requetes[r].cle \in Cle /\ requetes[r].vive \in BOOLEAN
    BY <1>0 DEF Point
  <2>2. /\ Relire(r) \in Point /\ Relire(r).genre = "lecture"
        /\ Relire(r).cle = requetes[r].cle /\ Relire(r).vive = requetes[r].vive
        /\ Aucune \in Point /\ ~Aucune.vive
    BY <2>1, LectureFaite DEF Relire
  <2>3. PICK q \in {Relire(r), Aucune} : Appels([requetes EXCEPT ![r] = q])
    BY <1>14 DEF EchouerLecture, EchouerActe
  <2>4. q \in Point /\ (q.vive => Suit(q, requetes[r]))
    BY <2>2 DEF Suit, Gestes
  <2>5. cle' = cle /\ cache' = cache /\ affiche' = affiche
    BY <1>14 DEF EchouerLecture, EchouerActe
  <2> QED BY <1>0, <1>3, <2>3, <2>4, <2>5
<1>15. ASSUME NEW a \in Gestes, Agir(a) PROVE ClesJustes'
  <2> DEFINE n == changements + 1 .. changements + ecran.ecritures
  <2>1. /\ affiche # Nul /\ n \in SUBSET Changement /\ cle' = cle
        /\ IF a = "optimiste" THEN SurPlace(n) ELSE UNCHANGED <<affiche, cache>>
    BY <1>0, <1>15, AgiFait
  <2>2. PICK r \in Requete : \E q \in Point : Appels([requetes EXCEPT ![r] = q]) /\ q.cle = cle
    BY ZenonT(40), <1>0, <1>15, AgiFait
  <2>3. PICK q \in Point : Appels([requetes EXCEPT ![r] = q]) /\ q.cle = cle
    BY <2>2
  <2> HIDE DEF n
  <2> QED BY <1>0, <1>3, <1>12, <2>1, <2>3
<1>16. CASE UNCHANGED vars
  BY <1>4, <1>16 DEF vars, Suit
<1> QED BY <1>1, <1>2, <1>5, <1>6, <1>7, <1>8, <1>9, <1>11, <1>13, <1>14, <1>15, <1>16 DEF Etape

(* What the calls of a key still have to do, but for the part X.           *)
LEMMA DusApres ==
    ASSUME NEW q, NEW p, NEW k, NEW X,
           \A s \in Requete : q[s].cle = k =>
               \/ q[s].reste = {}
               \/ p[s].cle = k /\ q[s].reste \subseteq p[s].reste \cup X
    PROVE  Dus(q, k) \subseteq Dus(p, k) \cup X
<1> SUFFICES ASSUME NEW e \in Dus(q, k) PROVE e \in Dus(p, k) \cup X
  OBVIOUS
<1>1. PICK s \in Requete : q[s].cle = k /\ e \in q[s].reste
  BY DEF Dus
<1>2. p[s].cle = k /\ e \in p[s].reste \cup X
  BY <1>1
<1> QED BY <1>2 DEF Dus

(* As long as nothing is lost, data that were founded are.                 *)
LEMMA FondesEncore ==
    ASSUME Types, Fondes, ecran' = ecran, echecs' = 0 => echecs = 0,
           \A k \in Cle : serveur[k] \subseteq serveur'[k],
           echecs' = 0 => \A k \in Cle : serveur[k] \cup Dus(requetes, k)
                                            \subseteq serveur'[k] \cup Dus(requetes', k),
           "optimiste" \notin ecran.actes \/ echecs' = 0 =>
               /\ \/ affiche' \in {affiche, Nul} \cup {cache[k] : k \in Cle}
                  \/ Fonde(affiche', serveur', requetes')
               /\ \A k \in Cle : \/ cache'[k] = cache[k]
                                 \/ Fonde(cache'[k], serveur', requetes')
    PROVE  Fondes'
<1> SUFFICES ASSUME "optimiste" \notin ecran.actes \/ echecs' = 0
             PROVE  /\ Fonde(affiche', serveur', requetes')
                    /\ \A k \in Cle : Fonde(cache'[k], serveur', requetes')
  BY DEF Fondes, Fonde
<1>1. /\ affiche \in Vu \cup {Nul} /\ \A k \in Cle : cache[k] \in Vu \cup {Nul}
      /\ \A d \in Vu : d.cle \in Cle
  BY DEF Types, TypeOK, Vu
<1>2. ASSUME NEW d \in Vu \cup {Nul}, Fonde(d, serveur, requetes)
      PROVE  Fonde(d, serveur', requetes')
  <2>1. CASE d = Nul
    BY <2>1 DEF Fonde
  <2>2. CASE d # Nul /\ d.vus \subseteq serveur[d.cle]
    BY <1>1, <2>2 DEF Fonde
  <2>3. CASE /\ d # Nul /\ "optimiste" \in ecran.actes
             /\ d.vus \subseteq serveur[d.cle] \cup Dus(requetes, d.cle)
    <3>1. d.cle \in Cle /\ echecs' = 0
      BY <1>1, <2>3
    <3>2. d.vus \subseteq serveur'[d.cle] \cup Dus(requetes', d.cle)
      BY <2>3, <3>1
    <3> QED BY <2>3, <3>2 DEF Fonde
  <2> QED BY <1>2, <2>1, <2>2, <2>3 DEF Fonde
<1>3. Fonde(affiche, serveur, requetes) /\ \A k \in Cle : Fonde(cache[k], serveur, requetes)
  BY DEF Fondes
<1>4. Fonde(Nul, serveur', requetes')
  BY DEF Fonde
<1> QED BY <1>1, <1>2, <1>3, <1>4

(* Every step keeps the data founded.                                      *)
LEMMA FondesPas ==
    ASSUME IInv, Etape
    PROVE  Fondes'
<1>0. /\ Types /\ ClesJustes /\ AppelsJustes /\ Fondes
      /\ requetes \in [Requete -> Point] /\ cle \in Cle /\ cache \in [Cle -> Vu \cup {Nul}]
      /\ ecran' = ecran /\ ecran \in Ecran /\ \A k \in Cle : serveur[k] \subseteq serveur'[k]
      /\ echecs \in Nat
  BY Reste DEF IInv, Types, TypeOK
<1>00. Aucune \in Point /\ Aucune.reste = {}
  BY <1>0, LectureFaite
(* Nothing is lost when the calls keep what they still have to do, or had  *)
(* nothing.                                                                *)
<1>1. ASSUME \A s \in Requete : \/ requetes[s].reste = {}
                                \/ Meme(requetes'[s], requetes[s])
      PROVE  \A k \in Cle : serveur[k] \cup Dus(requetes, k)
                               \subseteq serveur'[k] \cup Dus(requetes', k)
  <2>1. ASSUME NEW k \in Cle
        PROVE  Dus(requetes, k) \subseteq Dus(requetes', k) \cup {}
    <3>1. \A s \in Requete : requetes[s].cle = k =>
               \/ requetes[s].reste = {}
               \/ requetes'[s].cle = k /\ requetes[s].reste \subseteq requetes'[s].reste \cup {}
      BY <1>1 DEF Meme
    <3> HIDE DEF Dus
    <3> QED BY <3>1, DusApres
  <2> QED BY <1>0, <2>1
<1>2. ASSUME NEW r \in Requete, NEW q \in Point, Appels([requetes EXCEPT ![r] = q]),
             requetes[r].reste = {}
      PROVE  \A k \in Cle : serveur[k] \cup Dus(requetes, k)
                               \subseteq serveur'[k] \cup Dus(requetes', k)
  <2>1. \A s \in Requete \ {r} : requetes'[s] = requetes[s]
    BY <1>0, <1>2, Remplace
  <2> QED BY <1>1, <1>2, <2>1 DEF Meme
<1>3. ASSUME echecs' = echecs, cache' = cache,
             affiche' \in {affiche, Nul} \cup {cache[k] : k \in Cle},
             \A k \in Cle : serveur[k] \cup Dus(requetes, k)
                               \subseteq serveur'[k] \cup Dus(requetes', k)
      PROVE  Fondes'
  BY <1>0, <1>3, FondesEncore
<1>4. ASSUME NEW k \in Cle, MonterSur(k) PROVE Fondes'
  <2>1. PICK r \in Requete : /\ Libre(r)
                             /\ requetes' = [Delaissees EXCEPT ![r] = Lecture(k, TRUE)]
    BY <1>4 DEF MonterSur
  <2>2. requetes[r].reste = {} /\ \A s \in Requete \ {r} : Meme(requetes'[s], requetes[s])
    BY <1>0, <1>00, <2>1, DelaisseesFaites DEF Libre, Meme
  <2>3. affiche' = cache[k] /\ cache' = cache /\ echecs' = echecs
    BY <1>4 DEF MonterSur, Afficher
  <2> QED BY <1>1, <1>3, <2>2, <2>3
<1>5. ASSUME NEW k \in Cle, Garder(k) PROVE Fondes'
  <2>1. PICK r \in Requete : Libre(r) /\ Appels([requetes EXCEPT ![r] = Lecture(k, TRUE)])
    BY <1>5 DEF Garder
  <2>2. requetes[r].reste = {} /\ Lecture(k, TRUE) \in Point
    BY <1>00, <2>1, LectureFaite DEF Libre
  <2>3. affiche' = affiche /\ cache' = cache /\ echecs' = echecs
    BY <1>5 DEF Garder
  <2> QED BY <1>2, <1>3, <2>1, <2>2, <2>3
<1>6. ASSUME NEW k \in Cle, Autrui(k) PROVE Fondes'
  <2>1. requetes' = requetes /\ affiche' = affiche /\ cache' = cache /\ echecs' = echecs
    BY <1>6 DEF Autrui
  <2> QED BY <1>1, <1>3, <2>1 DEF Meme
<1>7. CASE Quitter
  <2>1. \A s \in Requete : Meme(requetes'[s], requetes[s])
    BY <1>0, <1>7, DelaisseesFaites DEF Quitter, Meme
  <2>2. affiche' = Nul /\ cache' = cache /\ echecs' = echecs
    BY <1>7 DEF Quitter, compteurs
  <2> QED BY <1>1, <1>3, <2>1, <2>2
<1>8. CASE Sonder
  <2>1. PICK r \in Requete : Libre(r) /\ Appels([requetes EXCEPT ![r] = Lecture(cle, TRUE)])
    BY <1>8 DEF Sonder
  <2>2. requetes[r].reste = {} /\ Lecture(cle, TRUE) \in Point
    BY <1>0, <1>00, <2>1, LectureFaite DEF Libre
  <2>3. affiche' = affiche /\ cache' = cache /\ echecs' = echecs
    BY <1>8 DEF Sonder, compteurs
  <2> QED BY <1>2, <1>3, <2>1, <2>2, <2>3
<1>9. ASSUME NEW r \in Requete, Lire(r) PROVE Fondes'
  <2>1. /\ requetes[r].reste = {} /\ \A s \in Requete \ {r} : requetes'[s] = requetes[s]
    BY <1>0, <1>9, LuFait DEF AppelsJustes, Tient, Gestes
  <2>2. affiche' = affiche /\ cache' = cache /\ echecs' = echecs
    BY <1>9 DEF Lire, compteurs
  <2> QED BY <1>1, <1>3, <2>1, <2>2 DEF Meme
<1>10. ASSUME NEW r \in Requete, Ecrire(r) PROVE Fondes'
  <2> DEFINE e == Min(requetes[r].reste)
             j == requetes[r].cle
  <2>1. /\ j \in Cle /\ serveur'[j] = serveur[j] \cup {e}
        /\ requetes'[r].cle = j /\ requetes'[r].reste = requetes[r].reste \ {e}
        /\ \A s \in Requete \ {r} : requetes'[s] = requetes[s]
    BY <1>0, <1>10, EcritFait DEF Point
  <2> HIDE DEF e
  <2>2. ASSUME NEW k \in Cle
        PROVE  serveur[k] \cup Dus(requetes, k) \subseteq serveur'[k] \cup Dus(requetes', k)
    <3>1. \A s \in Requete : requetes[s].cle = k =>
               \/ requetes[s].reste = {}
               \/ /\ requetes'[s].cle = k
                  /\ requetes[s].reste \subseteq
                        requetes'[s].reste \cup {x \in {e} : k = j}
      BY <2>1
    <3>2. Dus(requetes, k) \subseteq Dus(requetes', k) \cup {x \in {e} : k = j}
      BY <3>1, DusApres
    <3> QED BY <1>0, <2>1, <3>2
  <2>3. affiche' = affiche /\ cache' = cache /\ echecs' = echecs
    BY <1>10 DEF Ecrire, compteurs
  <2> QED BY <1>3, <2>2, <2>3
(* An answer: what it holds is in the server.                              *)
<1>11. ASSUME NEW r \in Requete, Appels([requetes EXCEPT ![r] = Aucune]), echecs' = echecs,
              requetes[r].reste = {}, requetes[r].vus # Nul,
              requetes[r].vus \subseteq serveur[requetes[r].cle],
              LET d == Donnees(requetes[r].cle, requetes[r].vus)
              IN  Memoriser(d) /\ affiche' = IF requetes[r].vive THEN d ELSE affiche
       PROVE  Fondes'
  <2> DEFINE d == Donnees(requetes[r].cle, requetes[r].vus)
  <2>1. /\ d \in Vu /\ d.cle = requetes[r].cle /\ d.vus = requetes[r].vus /\ d.cle \in Cle
        /\ Memoriser(d) /\ affiche' = IF requetes[r].vive THEN d ELSE affiche
    BY <1>0, <1>11, Reponse DEF Point
  <2> HIDE DEF d
  <2>2. Fonde(d, serveur', requetes')
    BY <1>0, <1>11, <2>1 DEF Fonde
  <2>3. \A k \in Cle : cache'[k] = cache[k] \/ cache'[k] = d
    BY <1>0, <2>1, Memorise
  <2>4. \A k \in Cle : serveur[k] \cup Dus(requetes, k)
                               \subseteq serveur'[k] \cup Dus(requetes', k)
    BY <1>00, <1>2, <1>11
  <2> QED BY <1>0, <1>11, <2>1, <2>2, <2>3, <2>4, FondesEncore
<1>12. ASSUME NEW r \in Requete, Arriver(r) PROVE Fondes'
  <2>1. /\ requetes[r].reste = {} /\ requetes[r].vus # Nul
        /\ requetes[r].vus \subseteq serveur[requetes[r].cle]
    BY <1>0, <1>12 DEF Arriver, AppelsJustes, Tient, Gestes
  <2> QED BY <1>11, <1>12, <2>1 DEF Arriver, Afficher, compteurs
<1>13. ASSUME NEW r \in Requete, Aboutir(r) PROVE Fondes'
  <2>1. /\ requetes[r] \in Point /\ requetes[r].genre \in Gestes
        /\ requetes[r].moi \in SUBSET Changement /\ requetes[r].reste = {}
        /\ requetes[r].cle \in Cle /\ requetes[r].vive \in BOOLEAN
        /\ requetes[r].genre \in ecran.actes
        /\ requetes[r].moi \subseteq serveur[requetes[r].cle]
        /\ requetes[r].vus # Nul /\ requetes[r].vus \subseteq serveur[requetes[r].cle]
        /\ echecs' = echecs
    BY <1>0, <1>13, AboutiFait
  <2>3. CASE /\ Appels([requetes EXCEPT ![r] = Relire(r)])
             /\ UNCHANGED <<affiche, cache>>
    <3>1. Relire(r) \in Point
      BY <2>1, LectureFaite DEF Relire
    <3> QED BY <1>2, <1>3, <2>1, <2>3, <3>1
  <2>4. CASE /\ Appels([requetes EXCEPT ![r] = Aucune])
             /\ Afficher(IF requetes[r].vive THEN Donnees(requetes[r].cle, requetes[r].vus)
                                             ELSE affiche)
             /\ Memoriser(Donnees(requetes[r].cle, requetes[r].vus))
    BY <1>11, <2>1, <2>4 DEF Afficher
  <2>5. CASE /\ requetes[r].genre = "apres" /\ Appels([requetes EXCEPT ![r] = Aucune])
             /\ requetes[r].vive /\ SurPlace(requetes[r].moi)
    <3>1. affiche # Nul /\ ecran.choix # "garde"
      BY <1>0, <2>1, <2>5 DEF ClesJustes
    <3>2. /\ affiche \in Vu /\ affiche'.cle = affiche.cle
          /\ affiche'.vus = affiche.vus \cup requetes[r].moi
          /\ \A k \in Cle : cache'[k] = cache[k] \/ cache'[k] = affiche'
      BY <1>0, <2>1, <2>5, <3>1, SurPlaceFait
    <3>3. affiche.cle = requetes[r].cle
      BY <1>0, <2>5, <3>1 DEF ClesJustes, AfficheDuChoix
    <3>4. \A k \in Cle : serveur[k] \cup Dus(requetes, k)
                               \subseteq serveur'[k] \cup Dus(requetes', k)
      BY <1>00, <1>2, <2>1, <2>5
    <3>5. ASSUME "optimiste" \notin ecran.actes \/ echecs' = 0
          PROVE  Fonde(affiche', serveur', requetes')
      <4>1. Fonde(affiche, serveur, requetes)
        BY <1>0, <2>1, <3>5 DEF Fondes
      <4>2. requetes[r].moi \subseteq serveur'[affiche.cle]
        BY <1>0, <2>1, <3>3
      <4>3. CASE affiche.vus \subseteq serveur[affiche.cle]
        BY <1>0, <2>1, <3>2, <3>3, <4>2, <4>3 DEF Fonde
      <4>4. CASE /\ "optimiste" \in ecran.actes
                 /\ affiche.vus \subseteq serveur[affiche.cle] \cup Dus(requetes, affiche.cle)
        <5>1. affiche.vus \subseteq serveur'[affiche.cle] \cup Dus(requetes', affiche.cle)
          BY <2>1, <3>3, <3>4, <4>4
        <5> QED BY <3>2, <4>2, <4>4, <5>1 DEF Fonde
      <4> QED BY <3>1, <4>1, <4>3, <4>4 DEF Fonde
    <3> QED BY <1>0, <2>1, <3>2, <3>4, <3>5, FondesEncore
  <2>6. CASE Appels([requetes EXCEPT ![r] = Aucune]) /\ UNCHANGED <<affiche, cache>>
    BY <1>00, <1>2, <1>3, <2>1, <2>6
  <2> QED BY <1>0, <1>13, <2>3, <2>4, <2>5, <2>6, Suites
<1>14. ASSUME NEW r \in Requete, EchouerLecture(r) \/ EchouerActe(r) PROVE Fondes'
  <2>1. /\ echecs' = echecs + 1 /\ affiche' = affiche /\ cache' = cache
    BY <1>14 DEF EchouerLecture, EchouerActe, Echouer
  <2>2. echecs' # 0
    BY <1>0, <2>1
  <2> QED BY <1>0, <2>1, <2>2, FondesEncore
<1>15. ASSUME NEW a \in Gestes, Agir(a) PROVE Fondes'
  <2> DEFINE n == changements + 1 .. changements + ecran.ecritures
  <2>1. /\ affiche # Nul /\ n \in SUBSET Changement /\ a \in ecran.actes
        /\ IF a = "optimiste" THEN SurPlace(n) ELSE UNCHANGED <<affiche, cache>>
        /\ serveur' = serveur /\ echecs' = echecs
    BY <1>0, <1>15, AgiFait
  <2>2. PICK r \in Requete : \E q \in Point :
            Libre(r) /\ Appels([requetes EXCEPT ![r] = q]) /\ q.cle = cle /\ q.reste = n
    BY <1>0, <1>15, AgiFait
  <2>3. PICK q \in Point :
            Libre(r) /\ Appels([requetes EXCEPT ![r] = q]) /\ q.cle = cle /\ q.reste = n
    BY <2>2
  <2> HIDE DEF n
  <2>4. requetes[r].reste = {}
    BY <1>00, <2>3 DEF Libre
  <2>5. \A k \in Cle : serveur[k] \cup Dus(requetes, k)
                               \subseteq serveur'[k] \cup Dus(requetes', k)
    BY <1>2, <2>3, <2>4
  <2>6. CASE a # "optimiste"
    BY <1>3, <2>1, <2>5, <2>6
  <2>7. CASE a = "optimiste"
    <3>1. "optimiste" \in ecran.actes /\ ecran.choix # "garde" /\ affiche.cle = cle
      BY <1>0, <2>1, <2>7 DEF ClesJustes, AfficheDuChoix
    <3>2. /\ affiche \in Vu /\ affiche'.cle = affiche.cle /\ affiche'.vus = affiche.vus \cup n
          /\ \A k \in Cle : cache'[k] = cache[k] \/ cache'[k] = affiche'
      BY <1>0, <2>1, <2>7, SurPlaceFait
    <3>3. requetes'[r].cle = cle /\ requetes'[r].reste = n
      BY <1>0, <2>3, Remplace
    <3>4. n \subseteq Dus(requetes', cle)
      BY <3>3 DEF Dus
    <3>5. ASSUME echecs' = 0 PROVE Fonde(affiche', serveur', requetes')
      <4>1. Fonde(affiche, serveur, requetes)
        BY <1>0, <2>1, <3>5 DEF Fondes
      <4>2. affiche.vus \subseteq serveur[cle] \cup Dus(requetes, cle)
        BY <2>1, <3>1, <4>1 DEF Fonde
      <4>3. affiche.vus \subseteq serveur'[cle] \cup Dus(requetes', cle)
        BY <1>0, <2>5, <4>2
      <4> QED BY <3>1, <3>2, <3>4, <4>3 DEF Fonde
    <3> QED BY <1>0, <2>1, <2>5, <3>1, <3>2, <3>5, FondesEncore
  <2> QED BY <2>6, <2>7
<1>16. CASE UNCHANGED vars
  <2>1. /\ requetes' = requetes /\ affiche' = affiche /\ cache' = cache /\ echecs' = echecs
    BY <1>16 DEF vars, compteurs
  <2> QED BY <1>1, <1>3, <2>1 DEF Meme
<1> QED BY <1>4, <1>5, <1>6, <1>7, <1>8, <1>9, <1>10, <1>12, <1>13, <1>14, <1>15, <1>16 DEF Etape

(* One call takes the place of another: the only live one; or the only one *)
(* that was live; or neither counts for the mounting.                      *)
LEMMA UnParUnApres ==
    ASSUME Types, UnParUn, NEW r \in Requete, NEW q \in Point,
           Appels([requetes EXCEPT ![r] = q]), UNCHANGED <<ecran, monte, cle, echecs>>,
           monte /\ ecran.choix # "garde" => reussis' \subseteq serveur'[cle],
           monte /\ ecran.choix # "garde" /\ echecs = 0 /\ ~croisees /\ ~croisees' =>
               \/ q.vive /\ Montrera(q, reussis', affiche')
               \/ ~q.vive /\ requetes[r].vive /\ Montre(reussis', affiche')
               \/ ~q.vive /\ ~requetes[r].vive /\ reussis' = reussis /\ affiche' = affiche
    PROVE  UnParUn'
<1> SUFFICES ASSUME monte, ecran.choix # "garde"
             PROVE  /\ ~croisees' => \A x, y \in Requete :
                           requetes'[x].vive /\ requetes'[y].vive => x = y
                    /\ echecs = 0 /\ ~croisees' =>
                          /\ \A x \in Requete : requetes'[x].vive =>
                                Montrera(requetes'[x], reussis', affiche')
                          /\ (\A x \in Requete : ~requetes'[x].vive)
                                => Montre(reussis', affiche')
  BY DEF UnParUn
<1>1. /\ requetes'[r] = q /\ \A s \in Requete \ {r} : requetes'[s] = requetes[s]
      /\ ~croisees' => /\ ~croisees
                       /\ \A x, y \in Requete :
                             requetes'[x].vive /\ requetes'[y].vive => x = y
  BY Remplace
<1>2. ~croisees => \A x, y \in Requete : requetes[x].vive /\ requetes[y].vive => x = y
  BY DEF UnParUn
<1>3. ASSUME echecs = 0, ~croisees'
      PROVE  /\ \A x \in Requete : requetes'[x].vive =>
                   Montrera(requetes'[x], reussis', affiche')
             /\ (\A x \in Requete : ~requetes'[x].vive) => Montre(reussis', affiche')
  <2>1. CASE q.vive /\ Montrera(q, reussis', affiche')
    BY <1>1, <1>3, <2>1
  <2>2. CASE ~q.vive /\ requetes[r].vive /\ Montre(reussis', affiche')
    BY <1>1, <1>2, <1>3, <2>2
  <2>3. CASE ~q.vive /\ ~requetes[r].vive /\ reussis' = reussis /\ affiche' = affiche
    <3>1. /\ \A x \in Requete : requetes[x].vive => Montrera(requetes[x], reussis, affiche)
          /\ (\A x \in Requete : ~requetes[x].vive) => Montre(reussis, affiche)
      BY <1>1, <1>3 DEF UnParUn
    <3> QED BY <1>1, <2>3, <3>1
  <2> QED BY <1>1, <1>3, <2>1, <2>2, <2>3
<1> QED BY <1>1, <1>3

(* Every step keeps what a page used one gesture at a time shows.          *)
LEMMA UnParUnPas ==
    ASSUME IInv, Etape
    PROVE  UnParUn'
<1>0. /\ Types /\ ClesJustes /\ AppelsJustes /\ UnParUn
      /\ requetes \in [Requete -> Point] /\ cle \in Cle /\ reussis \in SUBSET Changement
      /\ ecran' = ecran /\ ecran \in Ecran /\ \A k \in Cle : serveur[k] \subseteq serveur'[k]
      /\ echecs \in Nat
      /\ monte /\ ecran.choix # "garde" => reussis \subseteq serveur[cle]
  BY Reste DEF IInv, Types, TypeOK, UnParUn
<1>00. /\ Aucune \in Point /\ ~Aucune.vive
       /\ \A k \in Cle : \A v \in BOOLEAN : Lecture(k, v) \in Point /\ Lecture(k, v).vive = v
       /\ \A k \in Cle : \A v \in BOOLEAN : \A n, d : Montrera(Lecture(k, v), n, d)
  BY <1>0, LectureFaite DEF Montrera
(* What a call of the mounting, and no other, was about to show.           *)
<1>1. ASSUME NEW r \in Requete, requetes[r].vive, monte, ecran.choix # "garde", echecs = 0,
             ~croisees
      PROVE  Montrera(requetes[r], reussis, affiche) /\ requetes[r].cle = cle
  BY <1>0, <1>1 DEF UnParUn, ClesJustes
<1>2. ASSUME NEW k \in Cle, MonterSur(k) PROVE UnParUn'
  <2>1. PICK r \in Requete : requetes' = [Delaissees EXCEPT ![r] = Lecture(k, TRUE)]
    BY <1>2 DEF MonterSur
  <2>2. /\ requetes'[r] = Lecture(k, TRUE)
        /\ \A s \in Requete \ {r} : ~requetes'[s].vive
    BY <1>0, <2>1, DelaisseesFaites
  <2> DEFINE q == Lecture(k, TRUE)
  <2>3. q.vive /\ \A n, d : Montrera(q, n, d)
    BY LectureFaite DEF Montrera
  <2>4. requetes'[r] = q
    BY <2>2
  <2> HIDE DEF q
  <2>5. reussis' = {}
    BY <1>2 DEF MonterSur
  <2> QED BY <2>2, <2>3, <2>4, <2>5 DEF UnParUn
<1>3. ASSUME NEW k \in Cle, ecran.choix = "garde", Garder(k) PROVE UnParUn'
  BY <1>0, <1>3 DEF UnParUn
<1>4. ASSUME NEW k \in Cle, Autrui(k) PROVE UnParUn'
  <2>1. UNCHANGED <<ecran, monte, cle, affiche, requetes, echecs, reussis, croisees>>
    BY <1>4 DEF Autrui
  <2>2. monte /\ ecran.choix # "garde" => reussis \subseteq serveur'[cle]
    BY <1>0
  <2> QED BY <1>0, <2>1, <2>2 DEF UnParUn
<1>5. CASE Quitter
  BY <1>5 DEF Quitter, UnParUn
<1>6. CASE Sonder
  <2>1. PICK r \in Requete : Appels([requetes EXCEPT ![r] = Lecture(cle, TRUE)])
    BY <1>6 DEF Sonder
  <2>2. UNCHANGED <<ecran, serveur, monte, cle, affiche, cache, echecs, reussis>>
    BY <1>6 DEF Sonder, compteurs
  <2> DEFINE q == Lecture(cle, TRUE)
  <2>3. q \in Point /\ q.vive /\ \A n, d : Montrera(q, n, d)
    BY <1>0, LectureFaite DEF Montrera
  <2>4. Appels([requetes EXCEPT ![r] = q])
    BY <2>1
  <2> HIDE DEF q
  <2> QED BY <1>0, <2>2, <2>3, <2>4, UnParUnApres
(* The server reads, or writes: the calls of the mounting go on.           *)
<1>7. ASSUME UNCHANGED <<ecran, monte, cle, affiche, echecs, reussis, croisees>>,
             \A s \in Requete : /\ requetes'[s].vive = requetes[s].vive
                                /\ requetes[s].vive /\ requetes[s].cle = cle
                                      /\ reussis \subseteq serveur[cle]
                                      /\ Montrera(requetes[s], reussis, affiche)
                                   => Montrera(requetes'[s], reussis, affiche)
      PROVE  UnParUn'
  <2> SUFFICES ASSUME monte, ecran.choix # "garde"
               PROVE  /\ reussis \subseteq serveur'[cle]
                      /\ ~croisees => \A x, y \in Requete :
                             requetes'[x].vive /\ requetes'[y].vive => x = y
                      /\ echecs = 0 /\ ~croisees =>
                            /\ \A x \in Requete : requetes'[x].vive =>
                                  Montrera(requetes'[x], reussis, affiche)
                            /\ (\A x \in Requete : ~requetes'[x].vive)
                                  => Montre(reussis, affiche)
    BY <1>7 DEF UnParUn
  <2>1. reussis \subseteq serveur'[cle]
    BY <1>0
  <2>2. ~croisees => \A x, y \in Requete : requetes[x].vive /\ requetes[y].vive => x = y
    BY <1>0 DEF UnParUn
  <2>3. ASSUME echecs = 0, ~croisees
        PROVE  /\ \A x \in Requete : requetes[x].vive =>
                     /\ Montrera(requetes[x], reussis, affiche) /\ requetes[x].cle = cle
               /\ (\A x \in Requete : ~requetes[x].vive) => Montre(reussis, affiche)
    BY <1>0, <2>3 DEF UnParUn, ClesJustes
  <2> QED BY <1>0, <1>7, <2>1, <2>2, <2>3
<1>8. ASSUME NEW r \in Requete, Lire(r) PROVE UnParUn'
  <2>1. /\ requetes'[r].genre = "lecture" /\ requetes'[r].vus = serveur[requetes[r].cle]
        /\ \A s \in Requete \ {r} : requetes'[s] = requetes[s]
        /\ \A s \in Requete : requetes'[s].vive = requetes[s].vive
    BY <1>0, <1>8, LuFait
  <2>2. UNCHANGED <<ecran, monte, cle, affiche, echecs, reussis, croisees>>
    BY <1>8 DEF Lire, compteurs
  <2>3. requetes[r].cle = cle /\ reussis \subseteq serveur[cle]
           => Montrera(requetes'[r], reussis, affiche)
    BY <2>1 DEF Montrera
  <2> QED BY <1>7, <2>1, <2>2, <2>3
<1>9. ASSUME NEW r \in Requete, Ecrire(r) PROVE UnParUn'
  <2>1. /\ requetes[r].genre \in Gestes /\ requetes[r].cle \in Cle
        /\ requetes'[r].genre = requetes[r].genre /\ requetes'[r].moi = requetes[r].moi
        /\ requetes'[r].vus = serveur'[requetes[r].cle]
        /\ \A s \in Requete \ {r} : requetes'[s] = requetes[s]
        /\ \A s \in Requete : requetes'[s].vive = requetes[s].vive
    BY <1>0, <1>9, EcritFait DEF Point
  <2>2. UNCHANGED <<ecran, monte, cle, affiche, echecs, reussis, croisees>>
    BY <1>9 DEF Ecrire, compteurs
  <2>3. /\ requetes[r].cle = cle /\ reussis \subseteq serveur[cle]
        /\ Montrera(requetes[r], reussis, affiche)
        => Montrera(requetes'[r], reussis, affiche)
    <3> SUFFICES ASSUME reussis \subseteq requetes'[r].vus,
                        Montrera(requetes[r], reussis, affiche)
                 PROVE  Montrera(requetes'[r], reussis, affiche)
      BY <1>0, <2>1
    <3> QED BY <2>1 DEF Montrera, Gestes
  <2> QED BY <1>7, <2>1, <2>2, <2>3
<1>10. ASSUME NEW r \in Requete, Arriver(r) PROVE UnParUn'
  <2> DEFINE d == Donnees(requetes[r].cle, requetes[r].vus)
  <2>1. /\ d # Nul /\ d.vus = requetes[r].vus /\ requetes[r].vus # Nul
        /\ requetes[r].genre = "lecture"
        /\ affiche' = IF requetes[r].vive THEN d ELSE affiche
        /\ Appels([requetes EXCEPT ![r] = Aucune])
        /\ UNCHANGED <<ecran, serveur, monte, cle, echecs, reussis>>
    BY <1>0, <1>10, Reponse DEF Arriver, Afficher, compteurs
  <2> HIDE DEF d
  <2>2. ASSUME requetes[r].vive, monte, ecran.choix # "garde", echecs = 0, ~croisees
        PROVE  Montre(reussis', affiche')
    BY <1>1, <2>1, <2>2 DEF Montrera, Montre
  <2> QED BY <1>0, <1>00, <2>1, <2>2, UnParUnApres
<1>11. ASSUME NEW r \in Requete, EchouerLecture(r) \/ EchouerActe(r) PROVE UnParUn'
  <2>1. requetes[r].cle \in Cle /\ requetes[r].vive \in BOOLEAN
    BY <1>0 DEF Point
  <2>2. Relire(r) \in Point
    BY <2>1, LectureFaite DEF Relire
  <2>3. PICK q \in {Relire(r), Aucune} : Appels([requetes EXCEPT ![r] = q])
    BY <1>11 DEF EchouerLecture, EchouerActe
  <2>4. ~croisees' => \A x, y \in Requete : requetes'[x].vive /\ requetes'[y].vive => x = y
    BY <1>0, <1>00, <2>2, <2>3, Remplace
  <2>5. /\ UNCHANGED <<ecran, serveur, monte, cle, affiche, reussis>> /\ echecs' = echecs + 1
    BY <1>11 DEF EchouerLecture, EchouerActe, Echouer
  <2>6. echecs' # 0
    BY <1>0, <2>5
  <2> QED BY <1>0, <2>4, <2>5, <2>6 DEF UnParUn
<1>12. ASSUME NEW r \in Requete, Aboutir(r) PROVE UnParUn'
  <2>1. /\ requetes[r] \in Point /\ requetes[r].genre \in Gestes
        /\ requetes[r].moi \in SUBSET Changement /\ requetes[r].reste = {}
        /\ requetes[r].cle \in Cle /\ requetes[r].vive \in BOOLEAN
        /\ requetes[r].moi \subseteq serveur[requetes[r].cle] /\ requetes[r].moi # {}
        /\ requetes[r].vus # Nul /\ requetes[r].moi \subseteq requetes[r].vus
        /\ UNCHANGED <<ecran, serveur, monte, cle, echecs>>
        /\ reussis' = IF requetes[r].vive THEN reussis \cup requetes[r].moi ELSE reussis
    BY <1>0, <1>12, AboutiFait
  <2>2. monte /\ ecran.choix # "garde" => reussis' \subseteq serveur'[cle]
    BY <1>0, <2>1 DEF ClesJustes
  <2>3. ASSUME NEW q \in Point, Appels([requetes EXCEPT ![r] = q]),
               q.vive = requetes[r].vive \/ ~q.vive,
               requetes[r].vive /\ q.vive => Montrera(q, reussis', affiche'),
               requetes[r].vive /\ monte /\ ecran.choix # "garde" /\ echecs = 0 /\ ~croisees
                  /\ ~q.vive => Montre(reussis', affiche'),
               ~requetes[r].vive => affiche' = affiche
        PROVE  UnParUn'
    BY <1>0, <2>1, <2>2, <2>3, UnParUnApres
  <2>4. CASE /\ Appels([requetes EXCEPT ![r] = Relire(r)])
             /\ UNCHANGED <<affiche, cache>>
    <3>1. /\ Relire(r) \in Point /\ Relire(r).vive = requetes[r].vive
          /\ Relire(r).genre = "lecture" /\ Relire(r).vus = Nul
      BY <2>1, LectureFaite DEF Relire
    <3>2. Montrera(Relire(r), reussis', affiche')
      BY <3>1 DEF Montrera
    <3> QED BY <2>3, <2>4, <3>1, <3>2
  <2>5. CASE /\ requetes[r].genre = "reponse"
             /\ Appels([requetes EXCEPT ![r] = Aucune])
             /\ Afficher(IF requetes[r].vive THEN Donnees(requetes[r].cle, requetes[r].vus)
                                             ELSE affiche)
             /\ Memoriser(Donnees(requetes[r].cle, requetes[r].vus))
    <3> DEFINE d == Donnees(requetes[r].cle, requetes[r].vus)
    <3>1. /\ d # Nul /\ d.vus = requetes[r].vus
          /\ affiche' = IF requetes[r].vive THEN d ELSE affiche
      BY <2>1, <2>5, Reponse DEF Afficher
    <3> HIDE DEF d
    <3>2. ASSUME requetes[r].vive, monte, ecran.choix # "garde", echecs = 0, ~croisees
          PROVE  Montre(reussis', affiche')
      <4>1. reussis \subseteq requetes[r].vus
        BY <1>1, <2>1, <2>5, <3>2 DEF Montrera
      <4> QED BY <2>1, <3>1, <3>2, <4>1 DEF Montre
    <3> QED BY <1>00, <2>3, <2>5, <3>1, <3>2
  <2>6. CASE /\ requetes[r].genre = "apres" /\ Appels([requetes EXCEPT ![r] = Aucune])
             /\ requetes[r].vive /\ SurPlace(requetes[r].moi)
    <3>1. affiche # Nul
      BY <1>0, <2>1, <2>6 DEF ClesJustes
    <3>2. affiche' # Nul /\ affiche'.vus = affiche.vus \cup requetes[r].moi
      BY <1>0, <2>1, <2>6, <3>1, SurPlaceFait
    <3>3. ASSUME requetes[r].vive, monte, ecran.choix # "garde", echecs = 0, ~croisees
          PROVE  Montre(reussis', affiche')
      <4>1. Montre(reussis, affiche)
        BY <1>1, <2>6, <3>3 DEF Montrera
      <4> QED BY <2>1, <3>2, <3>3, <4>1 DEF Montre
    <3> QED BY <1>00, <2>3, <2>6, <3>3
  <2>7. CASE /\ requetes[r].genre \in {"apres", "optimiste"}
             /\ Appels([requetes EXCEPT ![r] = Aucune])
             /\ requetes[r].genre = "apres" => ~requetes[r].vive
             /\ UNCHANGED <<affiche, cache>>
    <3>1. ASSUME requetes[r].vive, monte, ecran.choix # "garde", echecs = 0, ~croisees
          PROVE  Montre(reussis', affiche')
      <4>1. Montre(reussis \cup requetes[r].moi, affiche)
        BY <1>1, <2>7, <3>1 DEF Montrera
      <4> QED BY <2>1, <2>7, <3>1, <4>1 DEF Montre
    <3> QED BY <1>00, <2>3, <2>7, <3>1
  <2> QED BY <1>0, <1>12, <2>4, <2>5, <2>6, <2>7, Suites
<1>13. ASSUME NEW a \in Gestes, Agir(a) PROVE UnParUn'
  <2> DEFINE n == changements + 1 .. changements + ecran.ecritures
  <2>1. /\ affiche # Nul /\ n \in SUBSET Changement
        /\ IF a = "optimiste" THEN SurPlace(n) ELSE UNCHANGED <<affiche, cache>>
        /\ UNCHANGED <<ecran, serveur, monte, cle, echecs, reussis>>
    BY <1>0, <1>13, AgiFait
  <2>2. PICK r \in Requete : \E q \in Point :
            /\ Libre(r) /\ Appels([requetes EXCEPT ![r] = q])
            /\ q.genre = a /\ q.vive /\ q.reste = n /\ q.moi = n
    BY <1>0, <1>13, AgiFait
  <2>3. PICK q \in Point :
            /\ Libre(r) /\ Appels([requetes EXCEPT ![r] = q])
            /\ q.genre = a /\ q.vive /\ q.reste = n /\ q.moi = n
    BY <2>2
  <2> HIDE DEF n
  <2>4. ASSUME monte, ecran.choix # "garde", echecs = 0, ~croisees'
        PROVE  Montrera(q, reussis', affiche')
    <3>1. /\ ~croisees /\ \A s \in Requete : ~requetes[s].vive
      <4>1. /\ requetes'[r] = q /\ \A s \in Requete \ {r} : requetes'[s] = requetes[s]
            /\ ~croisees
            /\ \A x, y \in Requete : requetes'[x].vive /\ requetes'[y].vive => x = y
        BY <1>0, <2>3, <2>4, Remplace
      <4>2. ~requetes[r].vive
        BY <1>00, <2>3 DEF Libre
      <4> QED BY <2>3, <4>1, <4>2
    <3>2. Montre(reussis, affiche)
      BY <1>0, <2>4, <3>1 DEF UnParUn
    <3>3. CASE a = "optimiste"
      <4>1. affiche' # Nul /\ affiche'.vus = affiche.vus \cup n
        BY <1>0, <2>1, <3>3, SurPlaceFait
      <4>2. Montre(reussis' \cup q.moi, affiche')
        BY <2>1, <2>3, <3>2, <4>1 DEF Montre
      <4> QED BY <2>3, <3>3, <4>2 DEF Montrera
    <3>4. CASE a # "optimiste"
      BY <2>1, <2>3, <3>2, <3>4 DEF Montrera, Gestes
    <3> QED BY <3>3, <3>4
  <2> QED BY <1>0, <2>1, <2>3, <2>4, UnParUnApres
<1>14. CASE UNCHANGED vars
  BY <1>0, <1>14 DEF vars, compteurs, UnParUn
<1> QED BY <1>2, <1>3, <1>4, <1>5, <1>6, <1>8, <1>9, <1>10, <1>11, <1>12, <1>13, <1>14 DEF Etape

-----------------------------------------------------------------------------
(* Theorems *)

(* The initial states.                                                     *)
LEMMA Debut == Init => IInv
<1> SUFFICES ASSUME Init PROVE IInv
  OBVIOUS
<1>1. Types
  BY TypesDebut
<1>2. \A r \in Requete : requetes[r] = Aucune
  BY DEF Init
<1>3. /\ Aucune.genre = "aucune" /\ ~Aucune.vive /\ Aucune.reste = {} /\ Aucune.moi = {}
      /\ Aucune.vus = Nul
  BY LectureFaite
<1>4. AppelsJustes
  BY <1>2, <1>3 DEF AppelsJustes, Tient, Gestes
<1>5. affiche = Nul /\ ~monte /\ \A k \in Cle : cache[k] = Nul
  BY DEF Init
<1>6. ClesJustes
  BY <1>2, <1>3, <1>5 DEF ClesJustes, AfficheDuChoix
<1>7. Fondes /\ UnParUn
  BY <1>5 DEF Fondes, Fonde, UnParUn
<1> QED BY <1>1, <1>4, <1>6, <1>7 DEF IInv

(* The steps.                                                              *)
LEMMA Pas == IInv /\ [Next]_vars => IInv'
<1> SUFFICES ASSUME IInv, [Next]_vars PROVE IInv'
  OBVIOUS
<1>1. Etape
  BY Etapes
<1> QED BY <1>1, TypesPas, JustesPas, ClesPas, FondesPas, UnParUnPas DEF IInv

(* A page, its cache and its calls are always what the model says they are.*)
THEOREM PagesTypeCorrect == Spec => []Types
<1>1. IInv => Types
  BY DEF IInv
<1> QED BY <1>1, Debut, Pas, PTL DEF Spec

(* A page that is mounted again on each choice shows the data of the one it*)
(* is on: what the calls of a former page answer goes to the cache only.   *)
THEOREM MontreLeChoix == Spec => []AfficheDuChoix
<1>1. IInv => AfficheDuChoix
  BY DEF IInv, ClesJustes
<1> QED BY <1>1, Debut, Pas, PTL DEF Spec

(* Nothing is shown or kept that the server does not have or is not about  *)
(* to be asked, but for what was applied on the spot before a failure.     *)
THEOREM JamaisInvente == Spec => []RienDInvente
<1>1. ASSUME IInv PROVE RienDInvente
  <2>1. \A k \in Cle : cache[k] # Nul => cache[k].cle = k
    BY <1>1 DEF IInv, ClesJustes
  <2>2. ASSUME "optimiste" \notin ecran.actes \/ echecs = 0,
               NEW d \in ({affiche} \cup {cache[k] : k \in Cle}) \ {Nul}
        PROVE  ~Invente(d)
    <3>1. Fonde(d, serveur, requetes)
      BY <1>1, <2>2 DEF IInv, Fondes
    <3>2. Dus(requetes, d.cle) \subseteq EnRoute
      BY DEF Dus, EnRoute
    <3> QED BY <2>2, <3>1, <3>2 DEF Fonde, Invente
  <2> QED BY <2>1, <2>2 DEF RienDInvente
<1> QED BY <1>1, Debut, Pas, PTL DEF Spec

(* A page used one gesture at a time shows the changes made on it as soon  *)
(* as its calls are over, with or without a failure of somebody else.      *)
THEOREM MontreLesSiens == Spec => []PropreVisible
<1>1. ASSUME IInv PROVE PropreVisible
  <2> SUFFICES ASSUME monte, ecran.choix # "garde", echecs = 0, ~croisees,
                      Vives(requetes) = {}
               PROVE  affiche # Nul /\ reussis \subseteq affiche.vus
    BY DEF PropreVisible
  <2>1. \A r \in Requete : ~requetes[r].vive
    <3>1. ~Aucune.vive
      BY DEF Aucune
    <3> QED BY <3>1 DEF Vives
  <2> QED BY <1>1, <2>1 DEF IInv, UnParUn, Montre
<1> QED BY <1>1, Debut, Pas, PTL DEF Spec

================================================================================
