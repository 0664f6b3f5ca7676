-------------------------- MODULE ConversationProofs --------------------------
(* Proofs about the chat window and its gateway, for any number of          *)
(* conversations, handlers, histories, messages and losses of the           *)
(* connection.                                                              *)
EXTENDS Conversation, FiniteSetTheorems, SequenceTheorems, TLAPS

-----------------------------------------------------------------------------
(* The order of a set of numbers.                                           *)

(* Each number has a rank of its own, from 1 to how many there are.         *)
LEMMA Rangs ==
    ASSUME NEW S \in SUBSET Nat, IsFiniteSet(S)
    PROVE  /\ Cardinality(S) \in Nat
           /\ \A m \in S : Rang(S, m) \in 1..Cardinality(S)
           /\ \A m, n \in S : Rang(S, m) = Rang(S, n) => m = n
           /\ \A i \in 1..Cardinality(S) : \E m \in S : Rang(S, m) = i
<1> DEFINE Sous(m) == {n \in S : n <= m}
<1>1. Cardinality(S) \in Nat
  BY FS_CardinalityType
<1>2. \A m \in S : /\ IsFiniteSet(Sous(m)) /\ Cardinality(Sous(m)) \in Nat
                   /\ Cardinality(Sous(m)) <= Cardinality(S)
  BY FS_Subset, FS_CardinalityType
<1>3. \A m \in S : Cardinality(Sous(m)) # 0
  <2> TAKE m \in S
  <2>1. m \in Sous(m)
    OBVIOUS
  <2> HIDE DEF Sous
  <2> QED BY <1>2, <2>1, FS_EmptySet
<1>4. \A m \in S : Rang(S, m) \in 1..Cardinality(S)
  <2> HIDE DEF Sous
  <2>1. \A m \in S : Rang(S, m) = Cardinality(Sous(m))
    BY DEF Rang, Sous
  <2> QED BY <1>1, <1>2, <1>3, <2>1
<1>5. ASSUME NEW m \in S, NEW n \in S, m < n PROVE Rang(S, m) < Rang(S, n)
  <2>0. m \in Nat /\ n \in Nat /\ \A k \in S : k \in Nat
    OBVIOUS
  <2>1. Sous(m) \subseteq Sous(n) /\ n \in Sous(n) /\ n \notin Sous(m)
    <3>1. \A k \in S : k <= m => k <= n
      BY ONLY <1>5, <2>0
    <3>2. ~(n <= m) /\ n <= n
      BY ONLY <1>5, <2>0
    <3> QED BY <3>1, <3>2
  <2> HIDE DEF Sous
  <2>2. Cardinality(Sous(m)) <= Cardinality(Sous(n)) /\ Cardinality(Sous(m)) # Cardinality(Sous(n))
    BY <1>2, <2>1, FS_Subset
  <2>3. Rang(S, m) = Cardinality(Sous(m)) /\ Rang(S, n) = Cardinality(Sous(n))
    BY DEF Rang, Sous
  <2> QED BY <1>2, <2>2, <2>3
<1>6. \A m, n \in S : Rang(S, m) = Rang(S, n) => m = n
  <2> SUFFICES ASSUME NEW m \in S, NEW n \in S, m # n PROVE Rang(S, m) # Rang(S, n)
    OBVIOUS
  <2>1. m < n \/ n < m
    OBVIOUS
  <2> QED BY <1>1, <1>4, <1>5, <2>1
<1>7. \A i \in 1..Cardinality(S) : \E m \in S : Rang(S, m) = i
  <2> DEFINE f == [m \in S |-> Rang(S, m)]
             T == 1..Cardinality(S)
  <2>1. f \in Injection(S, T)
    BY <1>4, <1>6 DEF Injection, IsInjective
  <2>2. IsFiniteSet(T) /\ Cardinality(T) = Cardinality(S)
    BY <1>1, FS_Interval
  <2>3. f \in Surjection(S, T)
    <3> HIDE DEF f, T
    <3> QED BY <2>1, <2>2, FS_Injection
  <2> QED BY <2>3 DEF Surjection
<1> QED BY <1>1, <1>4, <1>6, <1>7

(* EnOrdre(S) is a sequence of the elements of S, and lacks none. *)
LEMMA Ordonne ==
    ASSUME NEW S \in SUBSET Nat, IsFiniteSet(S)
    PROVE  EnOrdre(S) \in Seq(S) /\ EnOrdre(S) \in Seq(Nat) /\ ToSet(EnOrdre(S)) = S
<1> DEFINE n == Cardinality(S)
           De(i) == CHOOSE m \in S : Rang(S, m) = i
<1>1. n \in Nat /\ \A i \in 1..n : De(i) \in S /\ Rang(S, De(i)) = i
  BY Rangs
<1>2. EnOrdre(S) = [i \in 1..n |-> De(i)]
  BY DEF EnOrdre
<1> HIDE DEF De
<1>3. EnOrdre(S) \in Seq(S) /\ EnOrdre(S) \in Seq(Nat)
  <2>1. EnOrdre(S) \in [1..n -> S] /\ EnOrdre(S) \in [1..n -> Nat]
    BY <1>1, <1>2
  <2> QED BY <1>1, <2>1, SeqDef
<1>4. ASSUME NEW m \in S PROVE m \in ToSet(EnOrdre(S))
  <2>1. Rang(S, m) \in 1..n /\ \A k \in S : Rang(S, k) = Rang(S, m) => k = m
    BY Rangs
  <2>2. De(Rang(S, m)) = m
    BY <1>1, <2>1
  <2> QED BY <1>2, <2>1, <2>2 DEF ToSet
<1>5. ToSet(EnOrdre(S)) \subseteq S
  BY <1>1, <1>2 DEF ToSet
<1> QED BY <1>3, <1>4, <1>5

(* Taking a message off a list leaves the others. *)
LEMMA Retire ==
    ASSUME NEW s \in Seq(Nat), NEW m
    PROVE  Sauf(s, m) \in Seq(Nat) /\ ToSet(Sauf(s, m)) = ToSet(s) \ {m}
<1> DEFINE K == {k \in DOMAIN s : s[k] # m}
           g == EnOrdre(K)
<1>1. K \in SUBSET Nat /\ IsFiniteSet(K)
  <2>1. DOMAIN s = 1..Len(s) /\ Len(s) \in Nat
    BY LenProperties
  <2>2. IsFiniteSet(1..Len(s)) /\ K \subseteq 1..Len(s)
    BY <2>1, FS_Interval
  <2> QED BY <2>2, FS_Subset
<1>2. g \in Seq(K) /\ ToSet(g) = K
  <2> HIDE DEF K
  <2> QED BY <1>1, Ordonne
<1>3. Sauf(s, m) = [i \in DOMAIN g |-> s[g[i]]]
  BY DEF Sauf
<1>4. DOMAIN g = 1..Len(g) /\ Len(g) \in Nat /\ \A i \in DOMAIN g : g[i] \in K
  <2> HIDE DEF g
  <2> QED BY <1>2, LenProperties, ElementOfSeq
<1>5. \A k \in K : s[k] \in Nat /\ s[k] # m /\ s[k] \in ToSet(s)
  BY DEF ToSet
<1> HIDE DEF g
<1>6. Sauf(s, m) \in Seq(Nat)
  <2>1. \A i \in 1..Len(g) : s[g[i]] \in Nat
    BY <1>4, <1>5
  <2>2. Sauf(s, m) \in [1..Len(g) -> Nat]
    BY <1>3, <1>4, <2>1
  <2> QED BY <1>4, <2>2, SeqDef
<1>7. ToSet(Sauf(s, m)) \subseteq ToSet(s) \ {m}
  BY <1>3, <1>4, <1>5 DEF ToSet
<1>8. ASSUME NEW x \in ToSet(s), x # m PROVE x \in ToSet(Sauf(s, m))
  <2> PICK k \in DOMAIN s : s[k] = x
    BY DEF ToSet
  <2>1. k \in K
    BY <1>8
  <2>2. PICK i \in DOMAIN g : g[i] = k
    BY <1>2, <2>1 DEF ToSet
  <2> QED BY <1>3, <2>2 DEF ToSet
<1> QED BY <1>6, <1>7, <1>8

-----------------------------------------------------------------------------
(* Types.                                                                   *)

Message == [conv : Conv, auteur : Personne]
Ordre == {"quitter", "rejoindre", "marquer", "envoyer", "supprimer"}
Montant == [op : Ordre, c : Conv, m : Nat]
Descendant == [op : {"message", "supprime"}, c : Conv, par : Personne, m : Nat]

(* What is left of a handler's program. *)
Restes == {<<"entrer", "marquer">>, <<"entrer">>, <<"marquer">>, <<"creer", "diffuser">>,
           <<"diffuser">>, <<"supprimer", "annoncerSuppression">>, <<"annoncerSuppression">>}
EnCours == [op : Ordre \ {"quitter"}, par : Personne, c : Conv, m : Nat, reste : Restes]

(* A handler in progress: what is left is of its own program, it announces  *)
(* a message that exists as it was written, or the end of one that is gone. *)
Tenu(q, n, e, s) ==
    \/ /\ q.op = "rejoindre" /\ q.reste \in {<<"entrer", "marquer">>, <<"entrer">>, <<"marquer">>}
       /\ n = "dm" => q.reste # <<"entrer">>
    \/ q.op = "marquer" /\ q.reste = <<"marquer">>
    \/ q.op = "envoyer" /\ q.reste = <<"creer", "diffuser">>
    \/ /\ q.op = "envoyer" /\ q.reste = <<"diffuser">>
       /\ q.m \in 1..Len(e) /\ e[q.m] = [conv |-> q.c, auteur |-> q.par]
    \/ q.op = "supprimer" /\ q.reste = <<"supprimer", "annoncerSuppression">>
    \/ q.op = "supprimer" /\ q.reste = <<"annoncerSuppression">> /\ q.m \in s

Charge == [c : Conv, actif : BOOLEAN, avant : Nat, etape : {"marquer", "lire", "repondre"},
           page : Seq(Nat)]

TypeServeur ==
    /\ bornes \in Depart /\ ecrits \in Seq(Message) /\ supprimes \in SUBSET Nat
    /\ salles \in SUBSET Conv /\ lu \in [Conv -> Nat] /\ surs \subseteq 1..Len(ecrits)
    /\ connecte \in BOOLEAN
TypeFils ==
    /\ fils \in [Fil -> EnCours \cup {Repos}]
    /\ \A f \in Fil : fils[f] # Repos => Tenu(fils[f], nature, ecrits, supprimes)
TypeEvenements ==
    /\ montants \in Seq(Montant) /\ descendants \in Seq(Descendant)
    /\ \A k \in DOMAIN descendants :
          descendants[k].op = "supprime" => descendants[k].m \in supprimes
TypeFenetre ==
    /\ ouverte \in Conv \cup {Nul} /\ affiche \in Seq(Nat) \cup {Nul}
    /\ ouverte = Nul => affiche = Nul
    /\ chargements \in [Requete -> Charge \cup {Aucun}]
    /\ \A r \in Requete : chargements[r].actif => chargements[r].c = ouverte

(* Every variable that the properties depend on has its type; a history     *)
(* whose answer the window awaits is of the conversation it shows.          *)
Types == TypeServeur /\ TypeFils /\ TypeEvenements /\ TypeFenetre

(* The first of what is left, and what follows it. *)
LEMMA LesRestes ==
    \A s \in Restes :
        /\ s # << >>
        /\ Head(s) = "entrer" => s \in {<<"entrer", "marquer">>, <<"entrer">>}
        /\ Head(s) = "marquer" => s = <<"marquer">>
        /\ Head(s) = "creer" => s = <<"creer", "diffuser">> /\ Tail(s) = <<"diffuser">>
        /\ Head(s) = "diffuser" => s = <<"diffuser">>
        /\ Head(s) = "supprimer" => s = <<"supprimer", "annoncerSuppression">>
        /\ Head(s) = "annoncerSuppression" => s = <<"annoncerSuppression">>
        /\ Len(s) = 1 => s \in {<<"entrer">>, <<"marquer">>, <<"diffuser">>, <<"annoncerSuppression">>}
        /\ Len(s) # 1 => Tail(s) = IF s = <<"entrer", "marquer">> THEN <<"marquer">>
                                   ELSE IF s = <<"creer", "diffuser">> THEN <<"diffuser">>
                                   ELSE <<"annoncerSuppression">>
<1> SUFFICES ASSUME NEW s \in Restes
             PROVE  /\ s # << >>
                    /\ Head(s) = "entrer" => s \in {<<"entrer", "marquer">>, <<"entrer">>}
                    /\ Head(s) = "marquer" => s = <<"marquer">>
                    /\ Head(s) = "creer" => s = <<"creer", "diffuser">> /\ Tail(s) = <<"diffuser">>
                    /\ Head(s) = "diffuser" => s = <<"diffuser">>
                    /\ Head(s) = "supprimer" => s = <<"supprimer", "annoncerSuppression">>
                    /\ Head(s) = "annoncerSuppression" => s = <<"annoncerSuppression">>
                    /\ Len(s) = 1 => s \in {<<"entrer">>, <<"marquer">>, <<"diffuser">>,
                                            <<"annoncerSuppression">>}
                    /\ Len(s) # 1 => Tail(s) = IF s = <<"entrer", "marquer">> THEN <<"marquer">>
                                               ELSE IF s = <<"creer", "diffuser">>
                                                    THEN <<"diffuser">>
                                               ELSE <<"annoncerSuppression">>
  OBVIOUS
<1>1. CASE s = <<"entrer", "marquer">>
  BY <1>1
<1>2. CASE s = <<"entrer">>
  BY <1>2
<1>3. CASE s = <<"marquer">>
  BY <1>3
<1>4. CASE s = <<"creer", "diffuser">>
  BY <1>4
<1>5. CASE s = <<"diffuser">>
  BY <1>5
<1>6. CASE s = <<"supprimer", "annoncerSuppression">>
  BY <1>6
<1>7. CASE s = <<"annoncerSuppression">>
  BY <1>7
<1> QED BY <1>1, <1>2, <1>3, <1>4, <1>5, <1>6, <1>7 DEF Restes

-----------------------------------------------------------------------------
(* The handlers.                                                            *)

(* A handler at rest stands at no statement. *)
LEMMA Repose == Repos \notin EnCours /\ Repos.c = Nul /\ Repos.op = "aucune" /\ Repos.reste = << >>
BY DEF Repos, EnCours, Ordre

(* A handler that begins has its whole program before it. *)
LEMMA Debut ==
    ASSUME Types, NEW f \in Fil, NEW op \in Ordre \ {"quitter"}, NEW par \in Personne,
           NEW c \in Conv, NEW m \in Nat, Commencer(f, op, par, c, m),
           UNCHANGED <<bornes, ecrits, supprimes>>
    PROVE  /\ fils[f] = Repos /\ TypeFils'
           /\ \A g \in Fil \ {f} : fils'[g] = fils[g]
           /\ fils'[f] \in EnCours /\ fils'[f].op = op /\ fils'[f].c = c /\ fils'[f].m = m
           /\ op = "rejoindre" => fils'[f].reste \in {<<"entrer", "marquer">>, <<"entrer">>}
<1> DEFINE q == [op |-> op, par |-> par, c |-> c, m |-> m, reste |-> Programme(op)]
<1>0. fils \in [Fil -> EnCours \cup {Repos}] /\ bornes \in Depart
  BY DEF Types, TypeFils, TypeServeur
<1>1. fils[f] = Repos /\ fils' = [fils EXCEPT ![f] = q]
  BY DEF Commencer
<1>2. nature \in {"bureau", "organizer", "dm"}
  BY <1>0, ConversationAssumption DEF nature
<1>3. /\ op = "rejoindre" => /\ Programme(op) \in {<<"entrer", "marquer">>, <<"entrer">>}
                             /\ nature = "dm" => Programme(op) = <<"entrer", "marquer">>
      /\ op = "marquer" => Programme(op) = <<"marquer">>
      /\ op = "envoyer" => Programme(op) = <<"creer", "diffuser">>
      /\ op = "supprimer" => Programme(op) = <<"supprimer", "annoncerSuppression">>
  BY <1>2 DEF Programme
<1>4. op \in {"rejoindre", "marquer", "envoyer", "supprimer"}
  BY DEF Ordre
<1>5. Programme(op) \in Restes
  BY <1>3, <1>4 DEF Restes
<1>6. /\ q \in EnCours /\ q.op = op /\ q.c = c /\ q.m = m /\ q.reste = Programme(op)
  BY <1>5 DEF EnCours
<1>7. Tenu(q, nature, ecrits, supprimes)
  <2>1. <<"entrer", "marquer">> # <<"entrer">>
    OBVIOUS
  <2> QED BY <1>3, <1>4, <1>6, <2>1 DEF Tenu
<1> HIDE DEF q
<1>8. \A g \in Fil \ {f} : fils'[g] = fils[g]
  BY <1>0, <1>1
<1>9. fils'[f] = q /\ fils' \in [Fil -> EnCours \cup {Repos}]
  BY <1>0, <1>1, <1>6
<1>10. TypeFils'
  <2> SUFFICES ASSUME NEW g \in Fil, fils'[g] # Repos 
               PROVE  Tenu(fils'[g], nature, ecrits, supprimes)
    BY <1>9 DEF TypeFils, nature
  <2>1. CASE g = f
    BY <1>7, <1>9, <2>1
  <2>2. CASE g # f
    <3>1. Tenu(fils[g], nature, ecrits, supprimes)
      BY <1>8, <2>2 DEF Types, TypeFils
    <3> QED BY <1>8, <2>2, <3>1
  <2> QED BY <2>1, <2>2
<1> QED BY <1>1, <1>3, <1>6, <1>8, <1>9, <1>10

(* A handler that goes on: what it was about, and what is left of it.       *)
LEMMA Suite ==
    ASSUME Types, NEW f \in Fil, NEW i, Etape(f, i), Avancer(f)
    PROVE  /\ fils[f] \in EnCours /\ Tenu(fils[f], nature, ecrits, supprimes)
           /\ Head(fils[f].reste) = i
           /\ fils' \in [Fil -> EnCours \cup {Repos}]
           /\ \A g \in Fil \ {f} : fils'[g] = fils[g]
           /\ i = "entrer" =>
                 \/ fils[f].reste = <<"entrer">> /\ fils'[f] = Repos
                 \/ /\ fils[f].reste = <<"entrer", "marquer">>
                    /\ fils'[f] = [fils[f] EXCEPT !.reste = <<"marquer">>]
           /\ i \in {"marquer", "diffuser", "annoncerSuppression"} =>
                 fils[f].reste = <<i>> /\ fils'[f] = Repos
           /\ i = "supprimer" => /\ fils[f].op = "supprimer"
                                 /\ fils'[f] = [fils[f] EXCEPT !.reste = <<"annoncerSuppression">>]
<1> DEFINE q == fils[f]
           s == [q EXCEPT !.reste = Tail(q.reste)]
<1>0. fils \in [Fil -> EnCours \cup {Repos}]
  BY DEF Types, TypeFils
<1>1. q \in EnCours /\ Tenu(q, nature, ecrits, supprimes) /\ q.reste \in Restes /\ Head(q.reste) = i
  BY <1>0, Repose DEF Types, TypeFils, Etape, EnCours
<1>2. fils' = [fils EXCEPT ![f] = IF Len(q.reste) = 1 THEN Repos ELSE s]
  BY <1>0 DEF Avancer
<1>3. /\ i = "entrer" => q.reste \in {<<"entrer", "marquer">>, <<"entrer">>}
      /\ i = "marquer" => q.reste = <<"marquer">>
      /\ i = "diffuser" => q.reste = <<"diffuser">>
      /\ i = "supprimer" => q.reste = <<"supprimer", "annoncerSuppression">>
      /\ i = "annoncerSuppression" => q.reste = <<"annoncerSuppression">>
  BY <1>1, LesRestes
<1>4. Len(q.reste) # 1 => s \in EnCours
  <2>1. Len(q.reste) # 1 => Tail(q.reste) \in Restes
    BY <1>1, LesRestes DEF Restes
  <2> QED BY <1>1, <2>1 DEF EnCours
<1> HIDE DEF q
<1>5. /\ i = "entrer" =>
            \/ q.reste = <<"entrer">> /\ Len(q.reste) = 1
            \/ q.reste = <<"entrer", "marquer">> /\ Len(q.reste) # 1
               /\ s = [q EXCEPT !.reste = <<"marquer">>]
      /\ i \in {"marquer", "diffuser", "annoncerSuppression"} =>
            q.reste = <<i>> /\ Len(q.reste) = 1
      /\ i = "supprimer" => Len(q.reste) # 1 /\ s = [q EXCEPT !.reste = <<"annoncerSuppression">>]
  <2>1. CASE i = "entrer"
    <3>1. q.reste \in {<<"entrer", "marquer">>, <<"entrer">>}
      BY <1>3, <2>1
    <3>2. /\ Len(<<"entrer">>) = 1 /\ Len(<<"entrer", "marquer">>) # 1
          /\ Tail(<<"entrer", "marquer">>) = <<"marquer">>
      OBVIOUS
    <3> HIDE DEF s
    <3>3. q.reste = <<"entrer", "marquer">> => s = [q EXCEPT !.reste = <<"marquer">>]
      BY <3>2 DEF s
    <3> QED BY <2>1, <3>1, <3>2, <3>3
  <2>2. CASE i \in {"marquer", "diffuser", "annoncerSuppression"}
    <3>1. q.reste = <<i>>
      BY <1>3, <2>2
    <3>2. Len(<<i>>) = 1
      OBVIOUS
    <3> HIDE DEF s
    <3> QED BY <2>2, <3>1, <3>2
  <2>5. CASE i = "supprimer"
    <3>1. q.reste = <<"supprimer", "annoncerSuppression">>
      BY <1>3, <2>5
    <3>2. Len(q.reste) # 1 /\ Tail(q.reste) = <<"annoncerSuppression">>
      BY ONLY <3>1
    <3> QED BY <2>5, <3>2
  <2> HIDE DEF s
  <2> QED BY <2>1, <2>2, <2>5
<1>6. i = "supprimer" => q.op = "supprimer"
  BY <1>1, <1>3 DEF Tenu
<1> HIDE DEF s
<1>7. /\ fils' \in [Fil -> EnCours \cup {Repos}] /\ \A g \in Fil \ {f} : fils'[g] = fils[g]
      /\ Len(q.reste) = 1 => fils'[f] = Repos
      /\ Len(q.reste) # 1 => fils'[f] = s
  BY <1>0, <1>2, <1>4
<1> QED BY <1>1, <1>5, <1>6, <1>7 DEF q

(* The loss of the connection leaves a handler what it has to do besides    *)
(* the room.                                                                *)
LEMMA Coupee ==
    ASSUME Types, Coupure, NEW f \in Fil
    PROVE  \/ fils'[f] = Repos /\ (fils[f] = Repos \/ fils[f].reste = <<"entrer">>)
           \/ fils[f] \in EnCours /\ fils'[f] = fils[f] /\ Head(fils[f].reste) # "entrer"
           \/ /\ fils[f] \in EnCours /\ fils[f].reste = <<"entrer", "marquer">>
              /\ fils'[f] = [fils[f] EXCEPT !.reste = <<"marquer">>]
<1> DEFINE q == fils[f]
<1>1. q \in EnCours \cup {Repos}
  BY DEF Types, TypeFils
<1>2. fils'[f] = IF q = Repos \/ q.reste = <<"entrer">> THEN Repos
                 ELSE [q EXCEPT !.reste = SansEntrer(q.reste)]
  BY DEF Coupure
<1> HIDE DEF q
<1>3. CASE q = Repos \/ q.reste = <<"entrer">>
  BY <1>2, <1>3 DEF q
<1>4. CASE q # Repos /\ q.reste # <<"entrer">>
  <2>1. q \in EnCours /\ q.reste \in Restes
    BY <1>1, <1>4 DEF EnCours
  <2>2. CASE Head(q.reste) = "entrer"
    <3>1. q.reste = <<"entrer", "marquer">>
      BY <1>4, <2>1, <2>2, LesRestes
    <3>2. SansEntrer(q.reste) = <<"marquer">>
      BY <3>1 DEF SansEntrer
    <3> QED BY <1>2, <1>4, <2>1, <3>1, <3>2 DEF q
  <2>3. CASE Head(q.reste) # "entrer"
    <3>1. [q EXCEPT !.reste = q.reste] = q
      BY <2>1 DEF EnCours
    <3> QED BY <1>2, <1>4, <2>1, <2>3, <3>1 DEF SansEntrer, q
  <2> QED BY <2>2, <2>3
<1> QED BY <1>3, <1>4

(* A handler stays what it is while messages are written and deleted.       *)
LEMMA TenuEncore ==
    ASSUME NEW q, NEW n, NEW e \in Seq(Message), NEW m \in Message, NEW s, NEW t, s \subseteq t,
           Tenu(q, n, e, s)
    PROVE  Tenu(q, n, e, t) /\ Tenu(q, n, Append(e, m), t)
<1>1. \A i \in 1..Len(e) : i \in 1..Len(Append(e, m)) /\ Append(e, m)[i] = e[i]
  BY AppendProperties
<1> QED BY <1>1 DEF Tenu

(* A history that is asked for. *)
LEMMA Demandes ==
    ASSUME NEW c \in Conv, NEW avant \in Nat
    PROVE  /\ Demande(c, avant) \in Charge /\ Demande(c, avant).c = c
           /\ Demande(c, avant).actif /\ Demande(c, avant).avant = avant
           /\ Demande(c, avant).etape # "repondre"
BY EmptySeq DEF Demande, Charge

(* No history asked for is none. *)
LEMMA SansDemande == Aucun \notin Charge /\ ~Aucun.actif /\ Aucun.etape = "aucune"
BY DEF Aucun, Charge

(* Histories the window no longer waits for stay what they were otherwise. *)
LEMMA Oubli ==
    ASSUME Types
    PROVE  /\ Oublies \in [Requete -> Charge \cup {Aucun}]
           /\ \A r \in Requete : /\ ~Oublies[r].actif
                                 /\ Oublies[r].etape = chargements[r].etape
                                 /\ Oublies[r].avant = chargements[r].avant
                                 /\ Oublies[r].c = chargements[r].c
                                 /\ Oublies[r].page = chargements[r].page
<1>1. \A r \in Requete : chargements[r] \in Charge \cup {Aucun}
  BY DEF Types, TypeFenetre
<1>2. ASSUME NEW q \in Charge
      PROVE  LET p == [q EXCEPT !.actif = FALSE]
             IN  /\ p \in Charge /\ ~p.actif /\ p.etape = q.etape
                 /\ p.avant = q.avant /\ p.c = q.c /\ p.page = q.page
  BY DEF Charge
<1>3. \A r \in Requete : Libre(r) => Oublies[r] = Aucun /\ chargements[r] = Aucun
  BY DEF Oublies, Libre
<1>4. \A r \in Requete : ~Libre(r) => /\ Oublies[r] = [chargements[r] EXCEPT !.actif = FALSE]
                                      /\ chargements[r] \in Charge
  BY <1>1 DEF Oublies, Libre
<1>5. DOMAIN Oublies = Requete /\ Oublies = [r \in Requete |-> Oublies[r]]
  BY DEF Oublies
<1>6. ASSUME NEW r \in Requete
      PROVE  /\ Oublies[r] \in Charge \cup {Aucun} /\ ~Oublies[r].actif
             /\ Oublies[r].etape = chargements[r].etape
             /\ Oublies[r].avant = chargements[r].avant
             /\ Oublies[r].c = chargements[r].c
             /\ Oublies[r].page = chargements[r].page
  BY <1>2, <1>3, <1>4, SansDemande
<1> QED BY <1>5, <1>6

(* The page that a history reads is a list of messages. *)
LEMMA PagesListes ==
    ASSUME NEW c, NEW avant, ecrits \in Seq(Message)
    PROVE  PageDe(c, avant) \in Seq(Nat)
<1> DEFINE S == {m \in Messages(c) : avant \in supprimes \cup {0} \/ m < avant}
           T == {m \in S : Cardinality({n \in S : n > m}) < Page}
<1>1. T \subseteq 1..Len(ecrits) /\ Len(ecrits) \in Nat
  BY LenProperties DEF Messages
<1>2. T \in SUBSET Nat /\ IsFiniteSet(T)
  <2> HIDE DEF T
  <2>1. IsFiniteSet(1..Len(ecrits)) /\ 1..Len(ecrits) \subseteq Nat
    BY <1>1, FS_Interval
  <2> QED BY <1>1, <2>1, FS_Subset
<1>3. PageDe(c, avant) = EnOrdre(T)
  BY DEF PageDe
<1> HIDE DEF T
<1> QED BY <1>2, <1>3, Ordonne

-----------------------------------------------------------------------------
(* Types hold at every step.                                                *)

LEMMA TypesInit == Init => Types
<1> SUFFICES ASSUME Init PROVE Types
  OBVIOUS
<1>1. TypeServeur
  BY EmptySeq DEF Init, TypeServeur
<1>2. TypeFils
  BY DEF Init, TypeFils
<1>3. TypeEvenements
  BY EmptySeq DEF Init, TypeEvenements
<1>4. TypeFenetre
  BY SansDemande DEF Init, TypeFenetre
<1> QED BY <1>1, <1>2, <1>3, <1>4 DEF Types

(* An event put at the end, and the first one taken. *)
LEMMA Pousse ==
    ASSUME NEW S, NEW s \in Seq(S), NEW e \in S
    PROVE  /\ s \o <<e>> \in Seq(S) /\ Append(s, e) \in Seq(S)
           /\ \A t \in {s \o <<e>>, Append(s, e)} :
                 /\ DOMAIN t = DOMAIN s \cup {Len(s) + 1} /\ t[Len(s) + 1] = e
                 /\ \A k \in DOMAIN s : t[k] = s[k]
           /\ DOMAIN s = 1..Len(s) /\ Len(s) \in Nat
BY LenProperties, AppendProperties

(* What is left of the events, and the one taken. *)
LEMMA Ote ==
    ASSUME NEW S, NEW s \in Seq(S), s # << >>
    PROVE  /\ Tail(s) \in Seq(S) /\ Head(s) \in S /\ Head(s) = s[1] /\ 1 \in DOMAIN s
           /\ \A k \in DOMAIN Tail(s) : k + 1 \in DOMAIN s /\ Tail(s)[k] = s[k + 1]
           /\ \A k \in DOMAIN s : k # 1 => k - 1 \in DOMAIN Tail(s)
BY HeadTailProperties, LenProperties

(* What leaves the variables of a part alone keeps its type. *)
LEMMA Cadres ==
    ASSUME Types
    PROVE  /\ UNCHANGED <<bornes, ecrits, supprimes, salles, lu, surs, connecte>> => TypeServeur'
           /\ UNCHANGED <<fils, bornes, ecrits, supprimes>> => TypeFils'
           /\ UNCHANGED <<montants, descendants, supprimes>> => TypeEvenements'
           /\ UNCHANGED <<ouverte, affiche, chargements>> => TypeFenetre'
BY DEF Types, TypeServeur, TypeFils, TypeEvenements, TypeFenetre, nature

(* The window's own steps. *)
LEMMA TypesFenetre ==
    ASSUME Types,
           \/ \E c \in Conv : Ouvrir(c)
           \/ Fermer \/ Connexion \/ EcrireMessage \/ ChargerPlus
           \/ \E m \in 1..Len(ecrits) : SupprimerMessage(m)
           \/ RecevoirEvenement
           \/ \E r \in Requete : RecevoirHistorique(r)
    PROVE  Types'
<1> USE DEF Monter
<1>t. /\ montants \in Seq(Montant) /\ descendants \in Seq(Descendant) /\ ecrits \in Seq(Message)
      /\ ouverte \in Conv \cup {Nul} /\ affiche \in Seq(Nat) \cup {Nul}
      /\ (ouverte = Nul => affiche = Nul)
      /\ chargements \in [Requete -> Charge \cup {Aucun}]
      /\ \A r \in Requete : chargements[r].actif => chargements[r].c = ouverte
      /\ \A k \in DOMAIN descendants :
            descendants[k].op = "supprime" => descendants[k].m \in supprimes
  BY DEF Types, TypeServeur, TypeEvenements, TypeFenetre
<1>m. \A op \in Ordre, c \in Conv, m \in Nat :
         [op |-> op, c |-> c, m |-> m] \in Montant
         /\ montants \o <<[op |-> op, c |-> c, m |-> m]>> \in Seq(Montant)
  BY <1>t, Pousse DEF Montant
<1>n. Nul \notin Conv
  BY ConversationAssumption
<1>e. ASSUME montants' \in Seq(Montant), UNCHANGED <<descendants, supprimes>>
      PROVE  TypeEvenements'
  BY <1>t, <1>e DEF TypeEvenements
<1>q. ASSUME NEW c \in Conv, NEW avant \in Nat, NEW q \in [Requete -> Charge \cup {Aucun}],
             NEW r \in Requete,
             \A x \in Requete : q[x].actif => q[x].c = c
      PROVE  /\ [q EXCEPT ![r] = Demande(c, avant)] \in [Requete -> Charge \cup {Aucun}]
             /\ \A x \in Requete : [q EXCEPT ![r] = Demande(c, avant)][x].actif
                                   => [q EXCEPT ![r] = Demande(c, avant)][x].c = c
  BY <1>q, Demandes
<1>1. ASSUME NEW c \in Conv, Ouvrir(c) PROVE Types'
  <2>1. montants' \in Seq(Montant)
    <3>1. CASE ouverte = Nul
      <4>1. montants' = montants \o (<< >> \o <<[op |-> "rejoindre", c |-> c, m |-> 0]>>)
        BY <1>1, <3>1 DEF Ouvrir
      <4> QED BY <4>1, <1>m DEF Ordre
    <3>2. CASE ouverte # Nul
      <4> DEFINE q == [op |-> "quitter", c |-> ouverte, m |-> 0]
                 j == [op |-> "rejoindre", c |-> c, m |-> 0]
      <4>1. montants' = montants \o (<<q>> \o <<j>>)
        BY <1>1, <3>2 DEF Ouvrir
      <4>2. q \in Montant /\ j \in Montant
        BY <1>t, <3>2 DEF Montant, Ordre
      <4> HIDE DEF q, j
      <4>3. <<q>> \o <<j>> \in Seq(Montant)
        BY <4>2
      <4> QED BY <1>t, <4>1, <4>3, ConcatProperties
    <3> QED BY <3>1, <3>2
  <2>2. PICK r \in Requete : chargements' = [Oublies EXCEPT ![r] = Demande(c, 0)]
    BY <1>1 DEF Ouvrir
  <2>3. /\ ouverte' = c /\ affiche' = Nul
        /\ UNCHANGED <<bornes, ecrits, supprimes, salles, lu, surs, connecte, fils, descendants>>
    BY <1>1 DEF Ouvrir, serveur
  <2>4. TypeFenetre'
    BY <1>q, <1>n, <2>2, <2>3, Oubli DEF TypeFenetre
  <2> QED BY <1>e, <2>1, <2>3, <2>4, Cadres DEF Types
<1>2. CASE Fermer
  <2>1. /\ ouverte # Nul /\ ouverte' = Nul /\ affiche' = Nul /\ chargements' = Oublies
        /\ montants' = montants \o <<[op |-> "quitter", c |-> ouverte, m |-> 0]>>
        /\ UNCHANGED <<bornes, ecrits, supprimes, salles, lu, surs, connecte, fils, descendants>>
    BY <1>2 DEF Fermer, serveur
  <2>2. montants' \in Seq(Montant)
    BY <1>t, <1>m, <2>1 DEF Ordre
  <2>3. TypeFenetre'
    BY <2>1, Oubli DEF TypeFenetre
  <2> QED BY <1>e, <2>1, <2>2, <2>3, Cadres DEF Types
<1>3. CASE Connexion
  <2>1. /\ connecte' = TRUE
        /\ UNCHANGED <<bornes, ecrits, supprimes, salles, lu, surs, fils, descendants, ouverte,
                       affiche>>
    BY <1>3 DEF Connexion, serveur, fenetre
  <2>2. TypeServeur'
    BY <2>1 DEF Types, TypeServeur
  <2>3. CASE ouverte = Nul
    <3>1. UNCHANGED <<montants, chargements>>
      BY <1>3, <2>3 DEF Connexion, RejoindreEncore
    <3> QED BY <2>1, <2>2, <3>1, Cadres DEF Types
  <2>4. CASE ouverte # Nul
    <3>1. montants' = montants \o <<[op |-> "rejoindre", c |-> ouverte, m |-> 0]>>
      BY <1>3, <2>4 DEF Connexion, RejoindreEncore
    <3>2. PICK r \in Requete : chargements' = [chargements EXCEPT ![r] = Demande(ouverte, 0)]
      BY <1>3, <2>4 DEF Connexion, RejoindreEncore
    <3>3. montants' \in Seq(Montant)
      BY <1>t, <1>m, <2>4, <3>1 DEF Ordre
    <3>4. TypeFenetre'
      BY <1>t, <1>q, <2>1, <2>4, <3>2 DEF TypeFenetre
    <3> QED BY <1>e, <2>1, <2>2, <3>3, <3>4, Cadres DEF Types
  <2> QED BY <2>3, <2>4
<1>4. CASE EcrireMessage
  <2>1. /\ ouverte # Nul /\ montants' = montants \o <<[op |-> "envoyer", c |-> ouverte, m |-> 0]>>
        /\ UNCHANGED <<bornes, ecrits, supprimes, salles, lu, surs, fils, descendants, connecte,
                       ouverte, affiche, chargements>>
    BY <1>4 DEF EcrireMessage, serveur, fenetre
  <2>2. montants' \in Seq(Montant)
    BY <1>t, <1>m, <2>1 DEF Ordre
  <2> QED BY <1>e, <2>1, <2>2, Cadres DEF Types
<1>5. CASE ChargerPlus
  <2>1. /\ affiche # Nul /\ affiche # << >>
        /\ UNCHANGED <<bornes, ecrits, supprimes, salles, lu, surs, fils, montants, descendants,
                       connecte, ouverte, affiche>>
    BY <1>5 DEF ChargerPlus, serveur, fenetre
  <2>2. PICK r \in Requete : chargements' = [chargements EXCEPT ![r] = Demande(ouverte, affiche[1])]
    BY <1>5 DEF ChargerPlus
  <2>3. affiche[1] \in Nat /\ ouverte \in Conv
    BY <1>t, <2>1, Ote
  <2>4. TypeFenetre'
    BY ZenonT(40), <1>t, <1>q, <1>n, <2>1, <2>2, <2>3 DEF TypeFenetre
  <2> QED BY <2>1, <2>4, Cadres DEF Types
<1>6. ASSUME NEW m \in 1..Len(ecrits), SupprimerMessage(m) PROVE Types'
  <2>1. /\ montants' = montants \o <<[op |-> "supprimer", c |-> ecrits[m].conv, m |-> m]>>
        /\ UNCHANGED <<bornes, ecrits, supprimes, salles, lu, surs, fils, descendants, connecte,
                       ouverte, affiche, chargements>>
    BY <1>6 DEF SupprimerMessage, serveur, fenetre
  <2>2. ecrits[m].conv \in Conv /\ m \in Nat
    <3>1. ecrits[m] \in Message /\ m \in Nat
      BY <1>t, ElementOfSeq, LenProperties
    <3> QED BY <3>1 DEF Message
  <2>3. montants' \in Seq(Montant)
    BY <1>m, <2>1, <2>2 DEF Ordre
  <2> QED BY <1>e, <2>1, <2>3, Cadres DEF Types
<1>7. CASE RecevoirEvenement
  <2> DEFINE e == Head(descendants)
  <2>1. /\ descendants # << >> /\ descendants' = Tail(descendants)
        /\ UNCHANGED <<bornes, ecrits, supprimes, salles, lu, surs, fils, connecte, ouverte,
                       chargements>>
        /\ \/ ouverte = Nul /\ UNCHANGED <<montants, affiche>>
           \/ ouverte # Nul /\ (SurMessage(e) \/ SurSuppression(e))
    BY <1>7 DEF RecevoirEvenement, serveur
  <2>2. e \in Descendant /\ e.m \in Nat /\ descendants' \in Seq(Descendant)
    <3>1. e \in Descendant /\ descendants' \in Seq(Descendant)
      BY <1>t, <2>1, Ote
    <3> QED BY <3>1 DEF Descendant
  <2>3. \A k \in DOMAIN descendants' :
           descendants'[k].op = "supprime" => descendants'[k].m \in supprimes
    BY <1>t, <2>1, Ote
  <2> HIDE DEF e
  <2>4. montants' \in Seq(Montant)
    <3>1. CASE ouverte # Nul /\ SurMessage(e)
      BY <1>t, <1>m, <3>1 DEF SurMessage, Ordre
    <3> QED BY <1>t, <2>1, <3>1 DEF SurSuppression
  <2>5. affiche' \in Seq(Nat) \cup {Nul} /\ (ouverte = Nul => affiche' = Nul)
    <3>1. CASE ouverte # Nul /\ SurMessage(e)
      BY <1>t, <2>2, <3>1, Pousse, EmptySeq DEF SurMessage
    <3>2. CASE ouverte # Nul /\ SurSuppression(e)
      BY <1>t, <3>2, Retire DEF SurSuppression
    <3> QED BY <1>t, <2>1, <3>1, <3>2
  <2>6. TypeEvenements'
    BY <2>1, <2>2, <2>3, <2>4 DEF TypeEvenements
  <2>7. TypeFenetre'
    BY <1>t, <2>1, <2>5 DEF TypeFenetre
  <2> QED BY <2>1, <2>6, <2>7, Cadres DEF Types
<1>8. ASSUME NEW r \in Requete, RecevoirHistorique(r) PROVE Types'
  <2> DEFINE q == chargements[r]
  <2>1. /\ q.etape = "repondre" /\ chargements' = [chargements EXCEPT ![r] = Aucun]
        /\ affiche' = IF ~q.actif THEN affiche ELSE IF q.avant = 0 THEN q.page
                      ELSE q.page \o (IF affiche = Nul THEN << >> ELSE affiche)
        /\ UNCHANGED <<bornes, ecrits, supprimes, salles, lu, surs, fils, connecte, ouverte,
                       montants, descendants>>
    BY <1>8 DEF RecevoirHistorique, serveur
  <2>2. q \in Charge /\ q.page \in Seq(Nat) /\ q.c \in Conv /\ (q.actif => q.c = ouverte)
    BY <1>t, <2>1, SansDemande DEF Charge
  <2> HIDE DEF q
  <2>3. affiche' \in Seq(Nat) \cup {Nul} /\ (ouverte = Nul => affiche' = Nul)
    <3>1. (IF affiche = Nul THEN << >> ELSE affiche) \in Seq(Nat)
      BY <1>t, EmptySeq
    <3> QED BY <1>t, <1>n, <2>1, <2>2, <3>1, ConcatProperties
  <2>4. TypeFenetre'
    BY <1>t, <2>1, <2>3, SansDemande DEF TypeFenetre
  <2> QED BY <2>1, <2>4, Cadres DEF Types
<1> QED BY <1>1, <1>2, <1>3, <1>4, <1>5, <1>6, <1>7, <1>8

(* The loss of the connection, and the server's steps. *)
LEMMA TypesServeur ==
    ASSUME Types,
           \/ Coupure
           \/ \E r \in Requete : MarquerHistorique(r) \/ LireHistorique(r)
           \/ \E f \in Fil : \/ Prendre(f) \/ Autrui(f) \/ Entrer(f) \/ Marquer(f)
                             \/ Creer(f) \/ DiffuserMessage(f) \/ Supprimer(f)
                             \/ AnnoncerSuppression(f)
    PROVE  Types'
<1>t. /\ bornes \in Depart /\ ecrits \in Seq(Message) /\ supprimes \in SUBSET Nat
      /\ salles \in SUBSET Conv /\ lu \in [Conv -> Nat] /\ surs \subseteq 1..Len(ecrits)
      /\ connecte \in BOOLEAN /\ Len(ecrits) \in Nat
      /\ fils \in [Fil -> EnCours \cup {Repos}]
      /\ \A f \in Fil : fils[f] # Repos => Tenu(fils[f], nature, ecrits, supprimes)
      /\ montants \in Seq(Montant) /\ descendants \in Seq(Descendant)
      /\ \A k \in DOMAIN descendants :
            descendants[k].op = "supprime" => descendants[k].m \in supprimes
      /\ ouverte \in Conv \cup {Nul} /\ affiche \in Seq(Nat) \cup {Nul}
      /\ chargements \in [Requete -> Charge \cup {Aucun}]
      /\ \A r \in Requete : chargements[r].actif => chargements[r].c = ouverte
  BY LenProperties DEF Types, TypeServeur, TypeFils, TypeEvenements, TypeFenetre
<1>f. ASSUME fils' \in [Fil -> EnCours \cup {Repos}], UNCHANGED <<bornes, ecrits, supprimes>>,
             NEW f \in Fil, \A g \in Fil \ {f} : fils'[g] = fils[g],
             fils'[f] # Repos => Tenu(fils'[f], nature, ecrits, supprimes)
      PROVE  TypeFils'
  <2> SUFFICES ASSUME NEW g \in Fil, fils'[g] # Repos
               PROVE  Tenu(fils'[g], nature, ecrits, supprimes)
    BY <1>f DEF TypeFils, nature
  <2> QED BY <1>t, <1>f
<1>l. \A c \in Conv : Lecture(c) => lu' \in [Conv -> Nat]
  BY <1>t DEF Lecture, Maintenant
<1>d. ASSUME NEW c \in Conv, NEW e \in Descendant, Diffuser(c, e), e.op = "supprime" => e.m \in supprimes,
             UNCHANGED <<montants, supprimes>>
      PROVE  TypeEvenements'
  <2>1. CASE descendants' = descendants
    BY <1>t, <1>d, <2>1 DEF TypeEvenements
  <2>2. CASE descendants' = Append(descendants, e)
    <3>1. descendants' \in Seq(Descendant) /\ DOMAIN descendants' = DOMAIN descendants \cup {Len(descendants) + 1}
      BY <1>t, <2>2, Pousse
    <3>2. /\ \A k \in DOMAIN descendants : descendants'[k] = descendants[k]
          /\ descendants'[Len(descendants) + 1] = e
      BY <1>t, <2>2, Pousse
    <3> QED BY <1>t, <1>d, <3>1, <3>2 DEF TypeEvenements
  <2> QED BY <1>d, <2>1, <2>2 DEF Diffuser
<1>a. ASSUME NEW r \in Requete, chargements[r].etape # "aucune",
             NEW e \in {"lire", "repondre"}, NEW p \in Seq(Nat),
             UNCHANGED <<ouverte, affiche>>,
             chargements' = [chargements EXCEPT ![r] = [chargements[r] EXCEPT !.etape = e, !.page = p]]
      PROVE  TypeFenetre'
  <2>1. chargements[r] \in Charge
    BY <1>t, <1>a, SansDemande
  <2>2. [chargements[r] EXCEPT !.etape = e, !.page = p] \in Charge
    BY <2>1 DEF Charge
  <2>3. /\ [chargements[r] EXCEPT !.etape = e, !.page = p].actif = chargements[r].actif
        /\ [chargements[r] EXCEPT !.etape = e, !.page = p].c = chargements[r].c
    BY <2>1 DEF Charge
  <2>4. ouverte = Nul => affiche = Nul
    BY DEF Types, TypeFenetre
  <2> QED BY <1>t, <1>a, <2>2, <2>3, <2>4 DEF TypeFenetre
<1>1. CASE Coupure
  <2>1. /\ connecte' = FALSE /\ salles' = {} /\ montants' = << >> /\ descendants' = << >>
        /\ UNCHANGED <<bornes, ecrits, supprimes, lu, chargements, ouverte, affiche, surs>>
        /\ DOMAIN fils' = Fil /\ fils' = [f \in Fil |-> fils'[f]]
    BY <1>1 DEF Coupure, serveur, fenetre
  <2>2. TypeServeur' /\ TypeEvenements'
    <3>1. TypeServeur'
      BY <1>t, <2>1 DEF TypeServeur
    <3>2. /\ montants' \in Seq(Montant) /\ descendants' \in Seq(Descendant)
          /\ DOMAIN descendants' = {}
      <4>1. << >> \in Seq(Montant) /\ << >> \in Seq(Descendant) /\ DOMAIN << >> = {}
        BY EmptySeq
      <4> QED BY ONLY <2>1, <4>1
    <3> QED BY <3>1, <3>2 DEF TypeEvenements
  <2>3. ASSUME NEW f \in Fil
        PROVE  /\ fils'[f] \in EnCours \cup {Repos}
               /\ fils'[f] # Repos => Tenu(fils'[f], nature, ecrits, supprimes)
    <3>1. CASE fils'[f] = Repos \/ fils'[f] = fils[f]
      BY <1>t, <3>1
    <3>2. CASE /\ fils[f] \in EnCours /\ fils[f].reste = <<"entrer", "marquer">>
               /\ fils'[f] = [fils[f] EXCEPT !.reste = <<"marquer">>]
      <4>1. Tenu(fils[f], nature, ecrits, supprimes)
        BY <1>t, <3>2, Repose
      <4>2. fils[f].op = "rejoindre"
        BY <3>2, <4>1 DEF Tenu
      <4>3. fils'[f] \in EnCours /\ fils'[f].op = "rejoindre" /\ fils'[f].reste = <<"marquer">>
        BY <3>2, <4>2 DEF EnCours, Restes
      <4>4. <<"marquer">> # <<"entrer">>
        OBVIOUS
      <4> QED BY <4>3, <4>4 DEF Tenu
    <3> QED BY <1>1, <3>1, <3>2, Coupee
  <2>4. TypeFils'
    BY <2>1, <2>3 DEF TypeFils, nature
  <2> QED BY <2>1, <2>2, <2>4, Cadres DEF Types
<1>2. ASSUME NEW r \in Requete, MarquerHistorique(r) PROVE Types'
  <2>1. /\ chargements[r].etape = "marquer" /\ Lecture(chargements[r].c)
        /\ chargements' = [chargements EXCEPT ![r] = [chargements[r] EXCEPT !.etape = "lire"]]
        /\ UNCHANGED <<bornes, ecrits, supprimes, salles, fils, montants, descendants, connecte,
                       ouverte, affiche, surs>>
    BY <1>2 DEF MarquerHistorique, fenetre
  <2>2. chargements[r] \in Charge
    BY <1>t, <2>1, SansDemande
  <2>3. chargements[r].page \in Seq(Nat) /\ chargements[r].c \in Conv
    BY <2>2 DEF Charge
  <2>4. [chargements[r] EXCEPT !.etape = "lire"]
           = [chargements[r] EXCEPT !.etape = "lire", !.page = chargements[r].page]
    BY <2>2 DEF Charge
  <2>5. TypeFenetre'
    BY <1>a, <2>1, <2>3, <2>4
  <2>6. TypeServeur'
    BY <1>t, <1>l, <2>1, <2>3 DEF TypeServeur
  <2> QED BY <2>1, <2>5, <2>6, Cadres DEF Types
<1>3. ASSUME NEW r \in Requete, LireHistorique(r) PROVE Types'
  <2> DEFINE p == PageDe(chargements[r].c, chargements[r].avant)
  <2>1. /\ chargements[r].etape = "lire"
        /\ chargements' = [chargements EXCEPT ![r] =
                              [chargements[r] EXCEPT !.etape = "repondre", !.page = p]]
        /\ UNCHANGED <<bornes, ecrits, supprimes, lu, salles, fils, montants, descendants,
                       connecte, ouverte, affiche, surs>>
    BY <1>3, <1>t DEF LireHistorique, serveur, fenetre
  <2>2. p \in Seq(Nat)
    BY <1>t, PagesListes
  <2>3. TypeFenetre'
    BY <1>a, <2>1, <2>2
  <2> QED BY <2>1, <2>3, Cadres DEF Types
<1>4. ASSUME NEW f \in Fil, Prendre(f) PROVE Types'
  <2> DEFINE e == Head(montants)
  <2>1. /\ montants # << >> /\ montants' = Tail(montants)
        /\ \/ e.op = "quitter" /\ salles' = salles \ {e.c} /\ UNCHANGED fils
           \/ e.op # "quitter" /\ Commencer(f, e.op, "moi", e.c, e.m) /\ UNCHANGED salles
        /\ UNCHANGED <<bornes, ecrits, supprimes, lu, descendants, connecte, ouverte, affiche,
                       chargements, surs>>
    BY <1>4 DEF Prendre, serveur, fenetre
  <2>2. e \in Montant /\ montants' \in Seq(Montant)
    BY <1>t, <2>1, Ote
  <2> HIDE DEF e
  <2>3. e.op \in Ordre /\ e.c \in Conv /\ e.m \in Nat
    BY <2>2 DEF Montant
  <2>4. TypeServeur'
    BY <1>t, <2>1 DEF TypeServeur
  <2>5. TypeFils'
    <3>1. CASE e.op = "quitter"
      BY <2>1, <3>1, Cadres
    <3>2. CASE e.op # "quitter"
      BY <2>1, <2>3, <3>2, Debut DEF Personne
    <3> QED BY <3>1, <3>2
  <2>6. TypeEvenements'
    BY <1>t, <2>1, <2>2 DEF TypeEvenements
  <2> QED BY <2>1, <2>4, <2>5, <2>6, Cadres DEF Types
<1>5. ASSUME NEW f \in Fil, Autrui(f) PROVE Types'
  <2>1. PICK c \in bornes.convs : Commencer(f, "envoyer", "autre", c, 0)
    BY <1>5 DEF Autrui
  <2>2. UNCHANGED <<bornes, ecrits, supprimes, salles, lu, surs, connecte, montants, descendants,
                    ouverte, affiche, chargements>>
    BY <1>5 DEF Autrui, serveur, fenetre
  <2>3. c \in Conv
    BY <1>t, ConversationAssumption
  <2>4. TypeFils'
    BY <2>1, <2>2, <2>3, Debut DEF Personne, Ordre
  <2> QED BY <2>2, <2>4, Cadres DEF Types
<1>6. ASSUME NEW f \in Fil, Entrer(f) PROVE Types'
  <2>1. /\ Etape(f, "entrer") /\ Avancer(f) /\ salles' = salles \cup {fils[f].c}
        /\ UNCHANGED <<bornes, ecrits, supprimes, lu, surs, connecte, montants, descendants,
                       ouverte, affiche, chargements>>
    BY <1>6 DEF Entrer, serveur, fenetre
  <2>2. fils[f] \in EnCours /\ Tenu(fils[f], nature, ecrits, supprimes)
    BY <2>1, Suite
  <2>3. TypeServeur'
    BY <1>t, <2>1, <2>2 DEF TypeServeur, EnCours
  <2>4. fils'[f] # Repos => Tenu(fils'[f], nature, ecrits, supprimes)
    <3> SUFFICES ASSUME fils[f].reste = <<"entrer", "marquer">>,
                        fils'[f] = [fils[f] EXCEPT !.reste = <<"marquer">>]
                 PROVE  Tenu(fils'[f], nature, ecrits, supprimes)
      BY <2>1, Suite
    <3>1. fils[f].op = "rejoindre"
      BY <2>2 DEF Tenu
    <3>2. fils'[f].op = "rejoindre" /\ fils'[f].reste = <<"marquer">> /\ <<"marquer">> # <<"entrer">>
      BY <2>2, <3>1 DEF EnCours
    <3> QED BY <3>2 DEF Tenu
  <2>5. TypeFils'
    BY <1>f, <2>1, <2>4, Suite
  <2> QED BY <2>1, <2>3, <2>5, Cadres DEF Types
<1>7. ASSUME NEW f \in Fil, Marquer(f) PROVE Types'
  <2>1. /\ Etape(f, "marquer") /\ Avancer(f) /\ Lecture(fils[f].c)
        /\ UNCHANGED <<bornes, ecrits, supprimes, salles, surs, connecte, montants, descendants,
                       ouverte, affiche, chargements>>
    BY <1>7 DEF Marquer, fenetre
  <2>2. fils[f] \in EnCours /\ fils'[f] = Repos
    BY <2>1, Suite
  <2>3. TypeServeur'
    <3>1. fils[f].c \in Conv
      BY <2>2 DEF EnCours
    <3> QED BY <1>t, <1>l, <2>1, <3>1 DEF TypeServeur
  <2>4. TypeFils'
    BY <1>f, <2>1, <2>2, Suite
  <2> QED BY <2>1, <2>3, <2>4, Cadres DEF Types
<1>8. ASSUME NEW f \in Fil, DiffuserMessage(f) \/ AnnoncerSuppression(f) PROVE Types'
  <2>1. /\ \/ /\ Etape(f, "diffuser")
              /\ Diffuser(fils[f].c, [op |-> "message", c |-> fils[f].c, par |-> fils[f].par,
                                      m |-> fils[f].m])
           \/ /\ Etape(f, "annoncerSuppression")
              /\ Diffuser(fils[f].c, [op |-> "supprime", c |-> fils[f].c, par |-> "moi",
                                      m |-> fils[f].m])
        /\ Avancer(f)
        /\ UNCHANGED <<bornes, ecrits, supprimes, lu, salles, surs, connecte, montants, ouverte,
                       affiche, chargements>>
    BY <1>8 DEF DiffuserMessage, AnnoncerSuppression, serveur, fenetre
  <2>2. fils[f] \in EnCours /\ Tenu(fils[f], nature, ecrits, supprimes) /\ fils'[f] = Repos
    BY <2>1, Suite
  <2>3. fils[f].c \in Conv /\ fils[f].par \in Personne /\ fils[f].m \in Nat
    BY <2>2 DEF EnCours
  <2>4. Etape(f, "annoncerSuppression") => fils[f].m \in supprimes
    <3> SUFFICES ASSUME Etape(f, "annoncerSuppression") PROVE fils[f].m \in supprimes
      OBVIOUS
    <3>1. fils[f].reste = <<"annoncerSuppression">>
      BY <2>1, Suite
    <3> QED BY <2>2, <3>1 DEF Tenu
  <2>5. TypeEvenements'
    <3>1. CASE Etape(f, "diffuser") /\ Diffuser(fils[f].c,
                  [op |-> "message", c |-> fils[f].c, par |-> fils[f].par, m |-> fils[f].m])
      BY <1>d, <2>1, <2>3, <3>1 DEF Descendant
    <3>2. CASE Etape(f, "annoncerSuppression") /\ Diffuser(fils[f].c,
                  [op |-> "supprime", c |-> fils[f].c, par |-> "moi", m |-> fils[f].m])
      BY <1>d, <2>1, <2>3, <2>4, <3>2 DEF Descendant, Personne
    <3> QED BY <2>1, <3>1, <3>2
  <2>6. TypeFils'
    BY <1>f, <2>1, <2>2, Suite
  <2> QED BY <2>1, <2>5, <2>6, Cadres DEF Types
<1>9. ASSUME NEW f \in Fil, Creer(f) PROVE Types'
  <2> DEFINE q == fils[f]
             w == [conv |-> q.c, auteur |-> q.par]
             p == [q EXCEPT !.reste = Tail(q.reste), !.m = Len(ecrits) + 1]
  <2>1. /\ q.reste # << >> /\ Head(q.reste) = "creer"
        /\ ecrits' = Append(ecrits, w)
        /\ surs' \in {surs, surs \cup {Len(ecrits) + 1}}
        /\ UNCHANGED <<bornes, supprimes, lu, salles, connecte, montants, descendants, ouverte,
                       affiche, chargements>>
    BY <1>9 DEF Creer, Etape, fenetre
  <2>2. fils' = [fils EXCEPT ![f] = p]
    BY <1>9, <1>t DEF Creer
  <2>3. q \in EnCours /\ q.c \in Conv /\ q.par \in Personne /\ q.reste \in Restes
    BY <1>t, <2>1, Repose DEF EnCours
  <2>4. q.reste = <<"creer", "diffuser">> /\ Tail(q.reste) = <<"diffuser">>
    BY <2>1, <2>3, LesRestes
  <2>5. q.op = "envoyer"
    <3>1. Tenu(q, nature, ecrits, supprimes)
      BY <1>t, <2>3, Repose
    <3> QED BY <2>4, <3>1 DEF Tenu
  <2>6. /\ p \in EnCours /\ p.op = "envoyer" /\ p.reste = <<"diffuser">>
        /\ p.m = Len(ecrits) + 1 /\ p.c = q.c /\ p.par = q.par
    <3>1. /\ p = [q EXCEPT !.reste = <<"diffuser">>, !.m = Len(ecrits) + 1]
          /\ Len(ecrits) + 1 \in Nat /\ <<"diffuser">> \in Restes
      BY <1>t, <2>4 DEF Restes
    <3> HIDE DEF q, p
    <3> QED BY <2>3, <2>5, <3>1 DEF EnCours
  <2>7. w \in Message
    BY <2>3 DEF Message
  <2>8. /\ ecrits' \in Seq(Message) /\ Len(ecrits') = Len(ecrits) + 1
        /\ ecrits'[Len(ecrits) + 1] = w
    BY <1>t, <2>1, <2>7, AppendProperties
  <2>9. Tenu(p, nature, ecrits', supprimes)
    BY <1>t, <2>6, <2>8 DEF Tenu
  <2> HIDE DEF q, p, w
  <2>10. fils' \in [Fil -> EnCours \cup {Repos}] /\ fils'[f] = p
         /\ \A g \in Fil \ {f} : fils'[g] = fils[g]
    BY <1>t, <2>2, <2>6
  <2>11. TypeFils'
    <3> SUFFICES ASSUME NEW g \in Fil, fils'[g] # Repos
                 PROVE  Tenu(fils'[g], nature, ecrits', supprimes)
      BY <2>1, <2>10 DEF TypeFils, nature
    <3>1. CASE g # f
      BY <1>t, <2>1, <2>7, <2>10, <3>1, TenuEncore
    <3> QED BY <2>9, <2>10, <3>1
  <2>12. TypeServeur'
    BY <1>t, <2>1, <2>8 DEF TypeServeur
  <2> QED BY <2>1, <2>11, <2>12, Cadres DEF Types
<1>10. ASSUME NEW f \in Fil, Supprimer(f) PROVE Types'
  <2>1. /\ Etape(f, "supprimer") /\ supprimes' = supprimes \cup {fils[f].m}
        /\ \/ fils' = [fils EXCEPT ![f] = Repos]
           \/ Avancer(f)
        /\ UNCHANGED <<bornes, ecrits, lu, salles, surs, connecte, montants, descendants, ouverte,
                       affiche, chargements>>
    BY <1>10 DEF Supprimer, fenetre
  <2>2. fils[f] \in EnCours
    BY <1>t, <2>1, Repose DEF Etape
  <2>3. fils[f].m \in Nat
    BY <2>2 DEF EnCours
  <2>4. /\ fils' \in [Fil -> EnCours \cup {Repos}] /\ \A g \in Fil \ {f} : fils'[g] = fils[g]
        /\ fils'[f] # Repos => /\ fils[f].op = "supprimer"
                               /\ fils'[f] = [fils[f] EXCEPT !.reste = <<"annoncerSuppression">>]
    <3>1. CASE fils' = [fils EXCEPT ![f] = Repos]
      BY <1>t, <3>1
    <3>2. CASE Avancer(f)
      BY <2>1, <3>2, Suite
    <3> QED BY <2>1, <3>1, <3>2
  <2>5. fils'[f] # Repos => Tenu(fils'[f], nature, ecrits, supprimes')
    <3> SUFFICES ASSUME fils'[f] # Repos PROVE Tenu(fils'[f], nature, ecrits, supprimes')
      OBVIOUS
    <3>1. /\ fils'[f].op = "supprimer" /\ fils'[f].reste = <<"annoncerSuppression">>
          /\ fils'[f].m = fils[f].m
      BY <2>2, <2>4 DEF EnCours
    <3> QED BY <2>1, <3>1 DEF Tenu
  <2>6. TypeFils'
    <3> SUFFICES ASSUME NEW g \in Fil, fils'[g] # Repos
                 PROVE  Tenu(fils'[g], nature, ecrits, supprimes')
      BY <2>1, <2>4 DEF TypeFils, nature
    <3>1. CASE g # f
      <4>1. Tenu(fils[g], nature, ecrits, supprimes) /\ fils'[g] = fils[g]
        BY <1>t, <2>4, <3>1
      <4> QED BY <2>1, <4>1 DEF Tenu
    <3> QED BY <2>5, <3>1
  <2>7. TypeServeur' /\ TypeEvenements'
    BY <1>t, <2>1, <2>3 DEF TypeServeur, TypeEvenements
  <2> QED BY <2>1, <2>6, <2>7, Cadres DEF Types
<1> QED BY <1>1, <1>2, <1>3, <1>4, <1>5, <1>6, <1>7, <1>8, <1>9, <1>10

(* One case per action of Next. *)
LEMMA TypesStep == Types /\ [Next]_vars => Types'
<1>1. Types /\ UNCHANGED vars => Types'
  BY Cadres DEF vars, Types
<1> QED BY <1>1, TypesFenetre, TypesServeur DEF Next

-----------------------------------------------------------------------------
(* The queue of events towards the server.                                  *)

Quitte(e, c) == e.op = "quitter" /\ e.c = c
Rejoint(e, c) == e.op = "rejoindre" /\ e.c = c

(* Nothing leaves room c, or something joins it and nothing leaves it then. *)
SansQuitter(s, c) == \A k \in DOMAIN s : ~Quitte(s[k], c)
Annoncee(s, c) ==
    \E k \in DOMAIN s : Rejoint(s[k], c) /\ \A j \in DOMAIN s : j > k => ~Quitte(s[j], c)
(* A reading of c is announced. *)
Signale(s, c) == \E k \in DOMAIN s : s[k].c = c /\ s[k].op \in {"rejoindre", "marquer"}

(* What an event put last changes of it. *)
LEMMA EnFile ==
    ASSUME NEW s \in Seq(Montant), NEW e \in Montant, NEW c
    PROVE  LET t == s \o <<e>>
           IN  /\ ~Quitte(e, c) /\ SansQuitter(s, c) => SansQuitter(t, c)
               /\ ~Quitte(e, c) /\ Annoncee(s, c) => Annoncee(t, c)
               /\ Signale(s, c) => Signale(t, c)
               /\ Rejoint(e, c) => Annoncee(t, c) /\ Signale(t, c)
               /\ e.c = c /\ e.op = "marquer" => Signale(t, c)
<1> DEFINE t == s \o <<e>>
<1>1. /\ DOMAIN t = DOMAIN s \cup {Len(s) + 1} /\ t[Len(s) + 1] = e
      /\ \A k \in DOMAIN s : t[k] = s[k]
      /\ DOMAIN s = 1..Len(s) /\ Len(s) \in Nat
  BY Pousse
<1> HIDE DEF t
<1>2. ~Quitte(e, c) /\ SansQuitter(s, c) => SansQuitter(t, c)
  BY <1>1 DEF SansQuitter
<1>3. ~Quitte(e, c) /\ Annoncee(s, c) => Annoncee(t, c)
  BY <1>1 DEF Annoncee
<1>4. Signale(s, c) => Signale(t, c)
  BY <1>1 DEF Signale
<1>5. Rejoint(e, c) => Annoncee(t, c)
  <2> SUFFICES ASSUME Rejoint(e, c) PROVE Annoncee(t, c)
    OBVIOUS
  <2>1. \A j \in DOMAIN t : ~(j > Len(s) + 1)
    BY <1>1
  <2> QED BY <1>1, <2>1 DEF Annoncee
<1>6. (e.c = c /\ e.op \in {"rejoindre", "marquer"}) => Signale(t, c)
  BY <1>1 DEF Signale
<1>7. Rejoint(e, c) => Signale(t, c)
  BY <1>6 DEF Rejoint
<1> QED BY <1>2, <1>3, <1>4, <1>5, <1>6, <1>7 DEF t

(* And what taking the first one changes of it. *)
LEMMA HorsFile ==
    ASSUME NEW s \in Seq(Montant), s # << >>, NEW c
    PROVE  LET t == Tail(s)
               e == Head(s)
           IN  /\ SansQuitter(s, c) => SansQuitter(t, c) /\ ~Quitte(e, c)
               /\ Annoncee(s, c) => Annoncee(t, c) \/ (Rejoint(e, c) /\ SansQuitter(t, c))
               /\ Signale(s, c) =>
                     Signale(t, c) \/ (e.c = c /\ e.op \in {"rejoindre", "marquer"})
<1> DEFINE t == Tail(s)
           e == Head(s)
<1>1. /\ e = s[1] /\ 1 \in DOMAIN s /\ DOMAIN s = 1..Len(s) /\ Len(s) \in Nat
      /\ \A k \in DOMAIN t : k + 1 \in DOMAIN s /\ t[k] = s[k + 1]
      /\ \A k \in DOMAIN s : k # 1 => k - 1 \in DOMAIN t
      /\ \A k \in DOMAIN t : k \in Nat /\ k >= 1
  <2>1. t \in Seq(Montant)
    BY Ote
  <2>2. DOMAIN t = 1..Len(t) /\ Len(t) \in Nat
    BY <2>1, LenProperties
  <2> QED BY <2>2, Ote, LenProperties
<1> HIDE DEF t, e
<1>2. ASSUME NEW k \in DOMAIN s, k # 1 PROVE k - 1 \in DOMAIN t /\ t[k - 1] = s[k]
  BY <1>1, <1>2
<1>3. SansQuitter(s, c) => SansQuitter(t, c) /\ ~Quitte(e, c)
  BY <1>1 DEF SansQuitter
<1>4. ASSUME Annoncee(s, c) PROVE Annoncee(t, c) \/ (Rejoint(e, c) /\ SansQuitter(t, c))
  <2> PICK k \in DOMAIN s : Rejoint(s[k], c) /\ \A j \in DOMAIN s : j > k => ~Quitte(s[j], c)
    BY <1>4 DEF Annoncee
  <2>1. CASE k = 1
    <3>1. \A j \in DOMAIN t : j + 1 \in DOMAIN s /\ j + 1 > k /\ t[j] = s[j + 1]
      BY <1>1, <2>1
    <3> QED BY <1>1, <2>1, <3>1 DEF SansQuitter
  <2>2. CASE k # 1
    <3>1. \A j \in DOMAIN t : j > k - 1 => j + 1 \in DOMAIN s /\ j + 1 > k /\ t[j] = s[j + 1]
      BY <1>1
    <3>2. \A j \in DOMAIN t : j > k - 1 => ~Quitte(t[j], c)
      BY <3>1
    <3> QED BY <1>2, <2>2, <3>2 DEF Annoncee
  <2> QED BY <2>1, <2>2
<1>5. Signale(s, c) => Signale(t, c) \/ (e.c = c /\ e.op \in {"rejoindre", "marquer"})
  BY <1>1, <1>2 DEF Signale
<1> QED BY <1>3, <1>4, <1>5 DEF t, e

(* What each step puts last: nothing, or one event of the window.           *)
LEMMA Emissions ==
    ASSUME Types, \/ EcrireMessage \/ ChargerPlus \/ RecevoirEvenement
                  \/ \E m \in 1..Len(ecrits) : SupprimerMessage(m)
                  \/ \E r \in Requete : RecevoirHistorique(r)
                  \/ \E r \in Requete : MarquerHistorique(r) \/ LireHistorique(r)
    PROVE  /\ UNCHANGED <<ouverte, connecte, salles, fils, bornes, ecrits, supprimes, surs>>
           /\ \/ montants' = montants
              \/ \E e \in Montant : e.op \notin {"quitter", "rejoindre"}
                                    /\ montants' = montants \o <<e>>
<1> USE DEF Monter
<1>t. /\ descendants \in Seq(Descendant) /\ ouverte \in Conv \cup {Nul} /\ ecrits \in Seq(Message)
  BY DEF Types, TypeServeur, TypeEvenements, TypeFenetre
<1>m. \A op \in Ordre, c \in Conv, m \in Nat :
         /\ [op |-> op, c |-> c, m |-> m] \in Montant
         /\ [op |-> op, c |-> c, m |-> m].op = op
  BY DEF Montant
<1>1. CASE EcrireMessage
  BY <1>1, <1>t, <1>m DEF EcrireMessage, serveur, fenetre, Ordre
<1>2. CASE ChargerPlus \/ \E r \in Requete : \/ RecevoirHistorique(r) \/ MarquerHistorique(r)
                                             \/ LireHistorique(r)
  BY <1>2 DEF ChargerPlus, RecevoirHistorique, MarquerHistorique, LireHistorique, serveur, fenetre
<1>3. ASSUME NEW m \in 1..Len(ecrits), SupprimerMessage(m)
      PROVE  /\ UNCHANGED <<ouverte, connecte, salles, fils, bornes, ecrits, supprimes, surs>>
             /\ \E e \in Montant : e.op \notin {"quitter", "rejoindre"}
                                   /\ montants' = montants \o <<e>>
  <2>1. ecrits[m] \in Message /\ m \in Nat
    BY <1>t, ElementOfSeq, LenProperties
  <2>2. ecrits[m].conv \in Conv
    BY <2>1 DEF Message
  <2>3. /\ UNCHANGED <<ouverte, connecte, salles, fils, bornes, ecrits, supprimes, surs>>
        /\ montants' = montants \o <<[op |-> "supprimer", c |-> ecrits[m].conv, m |-> m]>>
    BY <1>3 DEF SupprimerMessage, serveur, fenetre
  <2> QED BY <1>m, <2>1, <2>2, <2>3 DEF Ordre
<1>4. CASE RecevoirEvenement
  <2> DEFINE j == [op |-> "marquer", c |-> ouverte, m |-> 0]
  <2>1. UNCHANGED <<ouverte, connecte, salles, fils, bornes, ecrits, supprimes, surs>>
    BY <1>4 DEF RecevoirEvenement, serveur
  <2>2. montants' = montants \/ (ouverte # Nul /\ montants' = montants \o <<j>>)
    BY <1>4 DEF RecevoirEvenement, SurMessage, SurSuppression
  <2>3. ouverte # Nul => j \in Montant /\ j.op \notin {"quitter", "rejoindre"}
    BY <1>t, <1>m DEF Ordre
  <2> HIDE DEF j
  <2> QED BY <2>1, <2>2, <2>3
<1> QED BY <1>1, <1>2, <1>3, <1>4

-----------------------------------------------------------------------------
(* The room of the open window.                                             *)

Entrant(q, c) == q.c = c /\ q.reste \in {<<"entrer", "marquer">>, <<"entrer">>}

(* The socket is in the room, or about to join it, and will not leave it.   *)
SalleSuivie ==
    connecte /\ ouverte # Nul =>
        \/ Annoncee(montants, ouverte)
        \/ /\ SansQuitter(montants, ouverte)
           /\ ouverte \in salles \/ \E f \in Fil : Entrant(fils[f], ouverte)

(* The handlers that join no room: the others and the window stay.          *)
LEMMA Autres ==
    ASSUME Types, NEW f \in Fil,
           Marquer(f) \/ Creer(f) \/ DiffuserMessage(f) \/ Supprimer(f) \/ AnnoncerSuppression(f)
    PROVE  /\ UNCHANGED <<bornes, salles, montants, connecte, ouverte, affiche, chargements>>
           /\ \A g \in Fil \ {f} : fils'[g] = fils[g]
           /\ fils[f] \in EnCours /\ Tenu(fils[f], nature, ecrits, supprimes)
           /\ ~Entrant(fils[f], ouverte)
<1>1. /\ UNCHANGED <<bornes, salles, montants, connecte, ouverte, affiche, chargements>>
      /\ fils[f].reste # << >> /\ Head(fils[f].reste) # "entrer"
  BY DEF Marquer, Creer, DiffuserMessage, Supprimer, AnnoncerSuppression, Etape, serveur, fenetre
<1>2. fils \in [Fil -> EnCours \cup {Repos}]
  BY DEF Types, TypeFils
<1>3. fils[f] \in EnCours /\ Tenu(fils[f], nature, ecrits, supprimes)
  BY <1>1, <1>2, Repose DEF Types, TypeFils
<1>4. \A g \in Fil \ {f} : fils'[g] = fils[g]
  <2>1. CASE Avancer(f)
    BY <1>2, <2>1 DEF Avancer
  <2>2. CASE Creer(f)
    BY <1>2, <2>2 DEF Creer
  <2>3. CASE fils' = [fils EXCEPT ![f] = Repos]
    BY <1>2, <2>3
  <2> QED BY <2>1, <2>2, <2>3 DEF Marquer, DiffuserMessage, Supprimer, AnnoncerSuppression
<1>5. ~Entrant(fils[f], ouverte)
  <2>1. Head(<<"entrer", "marquer">>) = "entrer" /\ Head(<<"entrer">>) = "entrer"
    OBVIOUS
  <2> QED BY <1>1, <2>1 DEF Entrant
<1> QED BY <1>1, <1>3, <1>4, <1>5

(* Opening and reconnecting announce the window last. *)
LEMMA Annonce ==
    ASSUME Types, Connexion \/ \E c \in Conv : Ouvrir(c), ouverte' # Nul
    PROVE  Annoncee(montants', ouverte') /\ Signale(montants', ouverte')
<1>t. montants \in Seq(Montant) /\ ouverte \in Conv \cup {Nul}
  BY DEF Types, TypeEvenements, TypeFenetre
<1>1. ASSUME NEW c \in Conv, Ouvrir(c)
      PROVE  Annoncee(montants', ouverte') /\ Signale(montants', ouverte')
  <2> DEFINE j == [op |-> "rejoindre", c |-> c, m |-> 0]
             q == [op |-> "quitter", c |-> ouverte, m |-> 0]
  <2>1. j \in Montant /\ Rejoint(j, c) /\ (ouverte # Nul => q \in Montant)
    BY <1>t DEF Montant, Ordre, Rejoint
  <2>2. PICK s \in Seq(Montant) : montants' = s \o <<j>>
    <3>1. CASE ouverte = Nul
      <4>1. montants' = montants \o (<< >> \o <<j>>)
        BY <1>1, <3>1 DEF Ouvrir, Monter
      <4>2. << >> \o <<j>> = <<j>>
        OBVIOUS
      <4> QED BY <1>t, <4>1, <4>2
    <3>2. CASE ouverte # Nul
      <4>1. montants' = montants \o (<<q>> \o <<j>>)
        BY <1>1, <3>2 DEF Ouvrir, Monter
      <4> HIDE DEF q, j
      <4>2. <<q>> \in Seq(Montant) /\ <<j>> \in Seq(Montant)
        BY <2>1, <3>2
      <4>3. montants' = (montants \o <<q>>) \o <<j>>
        BY <1>t, <4>1, <4>2, ConcatAssociative
      <4>4. montants \o <<q>> \in Seq(Montant)
        BY <1>t, <4>2, ConcatProperties
      <4> QED BY <4>3, <4>4
    <3> QED BY <3>1, <3>2
  <2>3. ouverte' = c
    BY <1>1 DEF Ouvrir
  <2> HIDE DEF j, q
  <2> QED BY <2>1, <2>2, <2>3, EnFile
<1>2. CASE Connexion
  <2> DEFINE j == [op |-> "rejoindre", c |-> ouverte, m |-> 0]
  <2>1. ouverte' = ouverte /\ montants' = montants \o <<j>>
    <3>1. ouverte' = ouverte
      BY <1>2 DEF Connexion, fenetre
    <3> QED BY <1>2, <3>1 DEF Connexion, RejoindreEncore, Monter
  <2>2. j \in Montant /\ Rejoint(j, ouverte)
    BY <1>t, <2>1 DEF Montant, Ordre, Rejoint
  <2> HIDE DEF j
  <2> QED BY <1>t, <2>1, <2>2, EnFile
<1> QED BY <1>1, <1>2

(* The room is followed at every step. *)
LEMMA SalleStep == Types /\ SalleSuivie /\ [Next]_vars => SalleSuivie'
<1> SUFFICES ASSUME Types, SalleSuivie, [Next]_vars, connecte', ouverte' # Nul
             PROVE  \/ Annoncee(montants', ouverte')
                    \/ /\ SansQuitter(montants', ouverte')
                       /\ ouverte' \in salles' \/ \E f \in Fil : Entrant(fils'[f], ouverte')
  BY DEF SalleSuivie
<1>t. /\ montants \in Seq(Montant) /\ ouverte \in Conv \cup {Nul}
      /\ fils \in [Fil -> EnCours \cup {Repos}] /\ Nul \notin Conv
  BY ConversationAssumption DEF Types, TypeEvenements, TypeFenetre, TypeFils
<1>s. connecte /\ ouverte # Nul =>
         \/ Annoncee(montants, ouverte)
         \/ /\ SansQuitter(montants, ouverte)
            /\ ouverte \in salles \/ \E f \in Fil : Entrant(fils[f], ouverte)
  BY DEF SalleSuivie
<1>r. \A c \in Conv : ~Entrant(Repos, c)
  BY <1>t, Repose DEF Entrant
<1>1. ASSUME \/ EcrireMessage \/ ChargerPlus \/ RecevoirEvenement
             \/ \E m \in 1..Len(ecrits) : SupprimerMessage(m)
             \/ \E r \in Requete : RecevoirHistorique(r)
             \/ \E r \in Requete : MarquerHistorique(r) \/ LireHistorique(r)
      PROVE  \/ Annoncee(montants', ouverte')
             \/ /\ SansQuitter(montants', ouverte')
                /\ ouverte' \in salles' \/ \E f \in Fil : Entrant(fils'[f], ouverte')
  <2>1. /\ UNCHANGED <<ouverte, connecte, salles, fils>>
        /\ \/ montants' = montants
           \/ \E e \in Montant : e.op \notin {"quitter", "rejoindre"}
                                 /\ montants' = montants \o <<e>>
    BY <1>1, Emissions
  <2>2. /\ Annoncee(montants, ouverte) => Annoncee(montants', ouverte)
        /\ SansQuitter(montants, ouverte) => SansQuitter(montants', ouverte)
    <3>1. CASE montants' = montants
      BY <3>1
    <3>2. ASSUME NEW e \in Montant, e.op \notin {"quitter", "rejoindre"},
                 montants' = montants \o <<e>>
          PROVE  /\ Annoncee(montants, ouverte) => Annoncee(montants', ouverte)
                 /\ SansQuitter(montants, ouverte) => SansQuitter(montants', ouverte)
      <4>1. ~Quitte(e, ouverte)
        BY <3>2 DEF Quitte
      <4> QED BY <1>t, <3>2, <4>1, EnFile
    <3> QED BY <2>1, <3>1, <3>2
  <2> QED BY <1>s, <2>1, <2>2
<1>2. CASE Connexion \/ \E c \in Conv : Ouvrir(c)
  BY <1>2, Annonce
<1>3. CASE Fermer \/ Coupure
  BY <1>3 DEF Fermer, Coupure
<1>5. ASSUME NEW f \in Fil, Prendre(f)
      PROVE  \/ Annoncee(montants', ouverte')
             \/ /\ SansQuitter(montants', ouverte')
                /\ ouverte' \in salles' \/ \E g \in Fil : Entrant(fils'[g], ouverte')
  <2> DEFINE e == Head(montants)
  <2>1. /\ connecte /\ montants # << >> /\ montants' = Tail(montants)
        /\ \/ e.op = "quitter" /\ salles' = salles \ {e.c} /\ UNCHANGED fils
           \/ e.op # "quitter" /\ Commencer(f, e.op, "moi", e.c, e.m) /\ UNCHANGED salles
        /\ UNCHANGED <<bornes, ecrits, supprimes, ouverte>>
    BY <1>5 DEF Prendre, serveur, fenetre
  <2>2. e \in Montant
    BY <1>t, <2>1, Ote
  <2>3. /\ SansQuitter(montants, ouverte) => SansQuitter(montants', ouverte) /\ ~Quitte(e, ouverte)
        /\ Annoncee(montants, ouverte) =>
              \/ Annoncee(montants', ouverte)
              \/ Rejoint(e, ouverte) /\ SansQuitter(montants', ouverte)
    BY <1>t, <2>1, HorsFile
  <2> HIDE DEF e
  <2>4. e.op \in Ordre /\ e.c \in Conv /\ e.m \in Nat
    BY <2>2 DEF Montant
  <2>5. e.op # "quitter" =>
           /\ fils[f] = Repos /\ \A g \in Fil \ {f} : fils'[g] = fils[g]
           /\ e.op = "rejoindre" => Entrant(fils'[f], e.c)
    <3> SUFFICES ASSUME e.op # "quitter"
                 PROVE  /\ fils[f] = Repos /\ \A g \in Fil \ {f} : fils'[g] = fils[g]
                        /\ e.op = "rejoindre" => Entrant(fils'[f], e.c)
      OBVIOUS
    <3>1. Commencer(f, e.op, "moi", e.c, e.m) /\ e.op \in Ordre \ {"quitter"}
      BY <2>1, <2>4
    <3>2. /\ fils[f] = Repos /\ \A g \in Fil \ {f} : fils'[g] = fils[g] /\ fils'[f].c = e.c
          /\ e.op = "rejoindre" => fils'[f].reste \in {<<"entrer", "marquer">>, <<"entrer">>}
      <4>1. "moi" \in Personne
        BY DEF Personne
      <4>2. UNCHANGED <<bornes, ecrits, supprimes>>
        BY <2>1
      <4>3. fils'[f].c = e.c
        BY <2>4, <3>1, <4>1, <4>2, Debut
      <4> QED BY <2>4, <3>1, <4>1, <4>2, <4>3, Debut
    <3>3. fils'[f].c = e.c
      BY <2>1, <2>4, <3>1, Debut DEF Personne
    <3> QED BY <3>2, <3>3 DEF Entrant
  <2>6. CASE Annoncee(montants, ouverte)
    <3>1. CASE Rejoint(e, ouverte) /\ SansQuitter(montants', ouverte)
      BY <2>1, <2>5, <3>1 DEF Rejoint
    <3> QED BY <2>1, <2>3, <2>6, <3>1
  <2>7. CASE SansQuitter(montants, ouverte) /\ ouverte \in salles
    BY <2>1, <2>3, <2>7 DEF Quitte
  <2>8. ASSUME SansQuitter(montants, ouverte), NEW g \in Fil, Entrant(fils[g], ouverte)
        PROVE  SansQuitter(montants', ouverte) /\ Entrant(fils'[g], ouverte)
    <3>1. fils'[g] = fils[g]
      <4>1. fils[g] # Repos
        BY <1>t, <1>r, <2>1, <2>8
      <4> QED BY <2>1, <2>5, <4>1
    <3> QED BY <2>3, <2>8, <3>1
  <2> QED BY <1>s, <2>1, <2>6, <2>7, <2>8
<1>6. ASSUME NEW f \in Fil, Autrui(f)
      PROVE  \/ Annoncee(montants', ouverte')
             \/ /\ SansQuitter(montants', ouverte')
                /\ ouverte' \in salles' \/ \E g \in Fil : Entrant(fils'[g], ouverte')
  <2>1. /\ UNCHANGED <<montants, ouverte, salles, connecte>> /\ fils[f] = Repos
        /\ \A g \in Fil \ {f} : fils'[g] = fils[g]
    BY <1>6, <1>t DEF Autrui, Commencer, fenetre
  <2>2. \A g \in Fil : Entrant(fils[g], ouverte) => Entrant(fils'[g], ouverte)
    BY <1>t, <1>r, <2>1
  <2> QED BY <1>s, <2>1, <2>2
<1>7. ASSUME NEW f \in Fil, Entrer(f)
      PROVE  \/ Annoncee(montants', ouverte')
             \/ /\ SansQuitter(montants', ouverte')
                /\ ouverte' \in salles' \/ \E g \in Fil : Entrant(fils'[g], ouverte')
  <2>1. /\ UNCHANGED <<montants, ouverte, connecte>> /\ salles' = salles \cup {fils[f].c}
        /\ Etape(f, "entrer") /\ Avancer(f)
    BY <1>7 DEF Entrer, fenetre
  <2>2. \A g \in Fil \ {f} : fils'[g] = fils[g]
    BY <2>1, Suite
  <2>3. \A g \in Fil : Entrant(fils[g], ouverte) =>
                          Entrant(fils'[g], ouverte) \/ ouverte \in salles'
    BY <2>1, <2>2 DEF Entrant
  <2> QED BY <1>s, <2>1, <2>3
<1>8. ASSUME NEW f \in Fil, \/ Marquer(f) \/ Creer(f) \/ DiffuserMessage(f)
                            \/ Supprimer(f) \/ AnnoncerSuppression(f)
      PROVE  \/ Annoncee(montants', ouverte')
             \/ /\ SansQuitter(montants', ouverte')
                /\ ouverte' \in salles' \/ \E g \in Fil : Entrant(fils'[g], ouverte')
  <2>1. /\ UNCHANGED <<salles, montants, connecte, ouverte>>
        /\ \A g \in Fil \ {f} : fils'[g] = fils[g]
        /\ ~Entrant(fils[f], ouverte)
    BY <1>8, Autres
  <2>2. \A g \in Fil : Entrant(fils[g], ouverte) => Entrant(fils'[g], ouverte)
    BY <2>1
  <2> QED BY <1>s, <2>1, <2>2
<1>9. CASE UNCHANGED vars
  BY <1>9, <1>s DEF vars, fenetre
<1> QED BY <1>1, <1>2, <1>3, <1>5, <1>6, <1>7, <1>8, <1>9 DEF Next

-----------------------------------------------------------------------------
(* What the window has shown is read.                                       *)

(* A reading of c is on its way or under way. *)
Marque(c) ==
    Signale(montants, c) \/ \E f \in Fil : fils[f].c = c /\ fils[f].op \in {"rejoindre", "marquer"}
(* Message m is about to be sent to its room, or on its way to the window.  *)
Diffuse(m) == \E f \in Fil : fils[f].m = m /\ fils[f].reste = <<"diffuser">>
Arrive(m) ==
    \E k \in DOMAIN descendants : descendants[k].op = "message" /\ descendants[k].m = m

Suivi(m) == m <= lu[ouverte] \/ Diffuse(m) \/ Arrive(m)
DeLAutre(m) == ecrits[m].conv = ouverte /\ ecrits[m].auteur = "autre"

LuSuivi ==
    connecte /\ ouverte # Nul /\ nature = "dm" =>
        Marque(ouverte) \/ \A m \in 1..Len(ecrits) : DeLAutre(m) => Suivi(m)

(* A handler that is about a reading of its room in a direct conversation,  *)
(* or about to join one.                                                    *)
LEMMA Lecteurs ==
    ASSUME Types, NEW f \in Fil
    PROVE  /\ fils[f].reste \in {<<"entrer", "marquer">>, <<"entrer">>} => fils[f].op = "rejoindre"
           /\ fils[f].reste = <<"diffuser">> =>
                 /\ fils[f].m \in 1..Len(ecrits) /\ fils[f].op = "envoyer"
                 /\ ecrits[fils[f].m] = [conv |-> fils[f].c, auteur |-> fils[f].par]
           /\ nature = "dm" /\ fils[f].op = "rejoindre" => fils[f].reste # <<"entrer">>
<1>1. CASE fils[f] = Repos
  BY <1>1, Repose
<1>2. CASE fils[f] # Repos
  <2>1. Tenu(fils[f], nature, ecrits, supprimes)
    BY <1>2 DEF Types, TypeFils
  <2>2. /\ <<"entrer">> # <<"diffuser">> /\ <<"marquer">> # <<"diffuser">>
        /\ <<"marquer">> # <<"entrer">> /\ <<"diffuser">> # <<"entrer">>
        /\ <<"annoncerSuppression">> # <<"entrer">> /\ <<"annoncerSuppression">> # <<"diffuser">>
    OBVIOUS
  <2>3. \A x, y, z : <<x, y>> # <<z>>
    OBVIOUS
  <2>4. /\ <<"creer", "diffuser">> # <<"entrer", "marquer">>
        /\ <<"supprimer", "annoncerSuppression">> # <<"entrer", "marquer">>
    OBVIOUS
  <2>5. DEFINE r == fils[f].reste
  <2>6. \/ fils[f].op = "rejoindre" /\ r # <<"diffuser">> /\ (nature = "dm" => r # <<"entrer">>)
        \/ fils[f].op = "marquer" /\ r = <<"marquer">>
        \/ fils[f].op = "envoyer" /\ r = <<"creer", "diffuser">>
        \/ /\ fils[f].op = "envoyer" /\ r = <<"diffuser">>
           /\ fils[f].m \in 1..Len(ecrits)
           /\ ecrits[fils[f].m] = [conv |-> fils[f].c, auteur |-> fils[f].par]
        \/ fils[f].op = "supprimer" /\ r = <<"supprimer", "annoncerSuppression">>
        \/ fils[f].op = "supprimer" /\ r = <<"annoncerSuppression">>
    BY <2>1, <2>2, <2>3 DEF Tenu
  <2> HIDE DEF r
  <2>7. /\ r \in {<<"entrer", "marquer">>, <<"entrer">>} => fils[f].op = "rejoindre"
        /\ r = <<"diffuser">> =>
              /\ fils[f].m \in 1..Len(ecrits) /\ fils[f].op = "envoyer"
              /\ ecrits[fils[f].m] = [conv |-> fils[f].c, auteur |-> fils[f].par]
        /\ nature = "dm" /\ fils[f].op = "rejoindre" => r # <<"entrer">>
    BY <2>2, <2>3, <2>4, <2>6
  <2> QED BY <2>7 DEF r
<1> QED BY <1>1, <1>2

(* Announcing puts one event last in the queue of the window at most. *)
LEMMA Diffusee ==
    ASSUME Types, NEW f \in Fil, DiffuserMessage(f) \/ AnnoncerSuppression(f)
    PROVE  /\ UNCHANGED <<ecrits, supprimes, lu, surs, affiche>> /\ fils'[f] = Repos
           /\ \A m : Arrive(m) => Arrive(m)'
           /\ DiffuserMessage(f) => fils[f].reste = <<"diffuser">>
           /\ \A m : DiffuserMessage(f) /\ fils[f].c \in salles /\ connecte /\ m = fils[f].m
                        => Arrive(m)'
           /\ AnnoncerSuppression(f) => fils[f].reste = <<"annoncerSuppression">>
<1>t. descendants \in Seq(Descendant)
  BY DEF Types, TypeEvenements
<1> DEFINE e == [op |-> "message", c |-> fils[f].c, par |-> fils[f].par, m |-> fils[f].m]
           d == [op |-> "supprime", c |-> fils[f].c, par |-> "moi", m |-> fils[f].m]
<1>1. /\ UNCHANGED <<ecrits, supprimes, lu, surs, affiche>>
      /\ DiffuserMessage(f) => Etape(f, "diffuser") /\ Avancer(f) /\ Diffuser(fils[f].c, e)
      /\ AnnoncerSuppression(f) =>
            Etape(f, "annoncerSuppression") /\ Avancer(f) /\ Diffuser(fils[f].c, d)
  BY DEF DiffuserMessage, AnnoncerSuppression, serveur, fenetre
<1>2. /\ fils'[f] = Repos
      /\ DiffuserMessage(f) => fils[f].reste = <<"diffuser">>
      /\ AnnoncerSuppression(f) => fils[f].reste = <<"annoncerSuppression">>
  BY <1>1, Suite
<1>3. fils[f].c \in Conv /\ fils[f].par \in Personne /\ fils[f].m \in Nat
  <2>1. fils[f] \in EnCours
    BY Autres
  <2> QED BY <2>1 DEF EnCours
<1>4. e \in Descendant /\ d \in Descendant /\ e.op = "message" /\ e.m = fils[f].m
  BY <1>3 DEF Descendant, Personne
<1> HIDE DEF e, d
<1>5. ASSUME NEW x \in Descendant, descendants' = Append(descendants, x)
      PROVE  /\ \A m : Arrive(m) => Arrive(m)'
             /\ \A m : x.op = "message" /\ x.m = m => Arrive(m)'
  <2>1. /\ DOMAIN descendants' = DOMAIN descendants \cup {Len(descendants) + 1}
        /\ descendants'[Len(descendants) + 1] = x
        /\ \A k \in DOMAIN descendants : descendants'[k] = descendants[k]
    BY <1>t, <1>5, Pousse
  <2> QED BY <2>1 DEF Arrive
<1>6. ASSUME UNCHANGED descendants PROVE \A m : Arrive(m) => Arrive(m)'
  BY <1>6 DEF Arrive
<1> QED BY <1>1, <1>2, <1>4, <1>5, <1>6 DEF Diffuser

(* Readings follow the messages at every step. *)
LEMMA LuStep == Types /\ SalleSuivie /\ LuSuivi /\ [Next]_vars => LuSuivi'
<1> SUFFICES ASSUME Types, SalleSuivie, LuSuivi, [Next]_vars,
                    connecte', ouverte' # Nul, nature' = "dm"
             PROVE  \/ Marque(ouverte)'
                    \/ \A m \in 1..Len(ecrits') : DeLAutre(m)' => Suivi(m)'
  BY DEF LuSuivi
<1>t. /\ montants \in Seq(Montant) /\ ouverte \in Conv \cup {Nul} /\ ecrits \in Seq(Message)
      /\ fils \in [Fil -> EnCours \cup {Repos}] /\ Nul \notin Conv /\ lu \in [Conv -> Nat]
      /\ descendants \in Seq(Descendant) /\ Len(ecrits) \in Nat
  BY ConversationAssumption, LenProperties
     DEF Types, TypeEvenements, TypeFenetre, TypeFils, TypeServeur
<1>n. bornes' = bornes /\ nature = "dm"
  <2>1. bornes' = bornes
    BY DEF Next, vars, Ouvrir, Fermer, Connexion, Coupure, EcrireMessage, SupprimerMessage,
           ChargerPlus, RecevoirEvenement, RecevoirHistorique, MarquerHistorique, LireHistorique,
           Prendre, Autrui, Entrer, Marquer, Creer, DiffuserMessage, Supprimer,
           AnnoncerSuppression
  <2> QED BY <2>1 DEF nature
<1>l. connecte /\ ouverte # Nul =>
         Marque(ouverte) \/ \A m \in 1..Len(ecrits) : DeLAutre(m) => Suivi(m)
  BY <1>n DEF LuSuivi
<1>p. ASSUME UNCHANGED <<ouverte, connecte, ecrits>>,
             Marque(ouverte) => Marque(ouverte)' \/ \A m \in 1..Len(ecrits) : Suivi(m)',
             \A m \in 1..Len(ecrits) : DeLAutre(m) /\ Suivi(m) => Suivi(m)' \/ Marque(ouverte)'
      PROVE  \/ Marque(ouverte)'
             \/ \A m \in 1..Len(ecrits') : DeLAutre(m)' => Suivi(m)'
  BY <1>l, <1>p DEF DeLAutre
<1>1. ASSUME \/ EcrireMessage \/ ChargerPlus
             \/ \E m \in 1..Len(ecrits) : SupprimerMessage(m)
             \/ \E r \in Requete : RecevoirHistorique(r) \/ LireHistorique(r)
      PROVE  \/ Marque(ouverte)'
             \/ \A m \in 1..Len(ecrits') : DeLAutre(m)' => Suivi(m)'
  <2>1. /\ UNCHANGED <<ouverte, connecte, fils, ecrits>>
        /\ \/ montants' = montants
           \/ \E e \in Montant : e.op \notin {"quitter", "rejoindre"}
                                 /\ montants' = montants \o <<e>>
    BY <1>1, Emissions
  <2>2. UNCHANGED <<lu, descendants>>
    BY <1>1 DEF EcrireMessage, ChargerPlus, SupprimerMessage, RecevoirHistorique, LireHistorique,
                serveur
  <2>3. Signale(montants, ouverte) => Signale(montants', ouverte)
    <3>1. ASSUME NEW e \in Montant, montants' = montants \o <<e>>
          PROVE  Signale(montants, ouverte) => Signale(montants', ouverte)
      BY <1>t, <3>1, EnFile
    <3> QED BY <2>1, <3>1
  <2>4. Marque(ouverte) => Marque(ouverte)'
    BY <2>1, <2>3 DEF Marque
  <2>5. \A m : Suivi(m) => Suivi(m)'
    BY <2>1, <2>2 DEF Suivi, Diffuse, Arrive
  <2> QED BY <1>p, <2>1, <2>4, <2>5
<1>2. CASE Connexion \/ \E c \in Conv : Ouvrir(c)
  BY <1>2, Annonce DEF Marque
<1>3. CASE Fermer \/ Coupure
  BY <1>3 DEF Fermer, Coupure
<1>4. ASSUME NEW r \in Requete, MarquerHistorique(r)
      PROVE  \/ Marque(ouverte)'
             \/ \A m \in 1..Len(ecrits') : DeLAutre(m)' => Suivi(m)'
  <2>1. /\ UNCHANGED <<ouverte, connecte, fils, ecrits, montants, descendants>>
        /\ chargements[r].etape = "marquer"
        /\ lu' = [lu EXCEPT ![chargements[r].c] = Len(ecrits)]
    BY <1>4 DEF MarquerHistorique, fenetre, Lecture, Maintenant
  <2>2. \A m \in 1..Len(ecrits) : m <= lu[ouverte] => m <= lu'[ouverte]
    BY <1>t, <2>1
  <2>3. \A m \in 1..Len(ecrits) : Suivi(m) => Suivi(m)'
    BY <2>1, <2>2 DEF Suivi, Diffuse, Arrive
  <2>4. Marque(ouverte) => Marque(ouverte)'
    BY <2>1 DEF Marque
  <2> QED BY <1>p, <2>1, <2>3, <2>4
<1>5. ASSUME RecevoirEvenement
      PROVE  \/ Marque(ouverte)'
             \/ \A m \in 1..Len(ecrits') : DeLAutre(m)' => Suivi(m)'
  <2> DEFINE e == Head(descendants)
             j == [op |-> "marquer", c |-> ouverte, m |-> 0]
  <2>1. /\ UNCHANGED <<ouverte, connecte, fils, ecrits, lu>> /\ descendants # << >>
        /\ descendants' = Tail(descendants) /\ ouverte # Nul
        /\ \/ e.op = "message" /\ SurMessage(e)
           \/ e.op = "supprime" /\ SurSuppression(e)
    BY <1>5 DEF RecevoirEvenement, serveur
  <2>2. /\ e = descendants[1]
        /\ \A k \in DOMAIN descendants : k # 1 => k - 1 \in DOMAIN descendants'
        /\ \A k \in DOMAIN descendants' :
              k + 1 \in DOMAIN descendants /\ descendants'[k] = descendants[k + 1]
        /\ DOMAIN descendants = 1..Len(descendants) /\ Len(descendants) \in Nat
    BY <1>t, <2>1, Ote, LenProperties
  <2>j. j \in Montant /\ j.op = "marquer" /\ j.c = ouverte
    BY <1>t, <2>1 DEF Montant, Ordre
  <2> HIDE DEF e, j
  <2>3. \/ UNCHANGED montants /\ (e.op = "message" => ecrits[e.m].auteur = "moi")
        \/ montants' = montants \o <<j>>
    BY <1>n, <2>1 DEF SurMessage, SurSuppression, Monter, j
  <2>4. CASE montants' = montants \o <<j>>
    <3>1. Signale(montants', ouverte)
      BY <1>t, <2>j, <2>4, EnFile
    <3> QED BY <2>1, <3>1 DEF Marque
  <2>5. CASE UNCHANGED montants /\ (e.op = "message" => ecrits[e.m].auteur = "moi")
    <3>1. Marque(ouverte) => Marque(ouverte)'
      BY <2>1, <2>5 DEF Marque
    <3>2. \A m : DeLAutre(m) /\ Arrive(m) => Arrive(m)'
      <4> SUFFICES ASSUME NEW m, ecrits[m].auteur = "autre", NEW k \in DOMAIN descendants,
                          descendants[k].op = "message", descendants[k].m = m
                   PROVE  \E i \in DOMAIN descendants' :
                             descendants'[i].op = "message" /\ descendants'[i].m = m
        BY DEF DeLAutre, Arrive
      <4>1. k # 1
        BY <2>2, <2>5
      <4>2. k - 1 \in DOMAIN descendants' /\ (k - 1) + 1 = k
        BY <2>2, <4>1
      <4>3. descendants'[k - 1] = descendants[k]
        BY <2>2, <4>2
      <4> QED BY <4>2, <4>3
    <3>3. \A m : DeLAutre(m) /\ Suivi(m) => Suivi(m)'
      BY <2>1, <3>2 DEF Suivi, Diffuse
    <3> QED BY <1>p, <2>1, <3>1, <3>3
  <2> QED BY <2>3, <2>4, <2>5
<1>6. ASSUME NEW f \in Fil, Prendre(f)
      PROVE  \/ Marque(ouverte)'
             \/ \A m \in 1..Len(ecrits') : DeLAutre(m)' => Suivi(m)'
  <2> DEFINE e == Head(montants)
  <2>1. /\ montants # << >> /\ montants' = Tail(montants)
        /\ \/ e.op = "quitter" /\ UNCHANGED fils
           \/ e.op # "quitter" /\ Commencer(f, e.op, "moi", e.c, e.m)
        /\ UNCHANGED <<ecrits, supprimes, lu, ouverte, connecte, descendants>>
    BY <1>6 DEF Prendre, serveur, fenetre
  <2>2. e \in Montant
    BY <1>t, <2>1, Ote
  <2>3. Signale(montants, ouverte) =>
           Signale(montants', ouverte) \/ (e.c = ouverte /\ e.op \in {"rejoindre", "marquer"})
    BY <1>t, <2>1, HorsFile
  <2> HIDE DEF e
  <2>4. e.op \in Ordre /\ e.c \in Conv /\ e.m \in Nat /\ "moi" \in Personne
    BY <2>2 DEF Montant, Personne
  <2>5. e.op # "quitter" =>
           /\ fils[f] = Repos /\ fils'[f].c = e.c /\ fils'[f].op = e.op
           /\ \A g \in Fil \ {f} : fils'[g] = fils[g]
    BY <1>n, <2>1, <2>4, Debut
  <2>6. \A g \in Fil : fils[g] # Repos => fils'[g] = fils[g]
    BY <2>1, <2>5
  <2>7. Marque(ouverte) => Marque(ouverte)'
    <3>1. CASE Signale(montants, ouverte)
      BY <2>1, <2>3, <2>5, <3>1 DEF Marque
    <3>2. CASE \E g \in Fil : fils[g].c = ouverte /\ fils[g].op \in {"rejoindre", "marquer"}
      BY <2>1, <2>6, <3>2, Repose DEF Marque
    <3> QED BY <3>1, <3>2 DEF Marque
  <2>8. \A m : Suivi(m) => Suivi(m)'
    <3>1. << >> # <<"diffuser">>
      OBVIOUS
    <3>2. \A m : Diffuse(m) => Diffuse(m)'
      BY <2>6, <3>1, Repose DEF Diffuse
    <3> QED BY <2>1, <3>2 DEF Suivi, Arrive
  <2> QED BY <1>p, <2>1, <2>7, <2>8
<1>7. ASSUME NEW f \in Fil, Autrui(f)
      PROVE  \/ Marque(ouverte)'
             \/ \A m \in 1..Len(ecrits') : DeLAutre(m)' => Suivi(m)'
  <2>1. /\ UNCHANGED <<montants, ouverte, lu, ecrits, descendants, connecte>> /\ fils[f] = Repos
        /\ \A g \in Fil \ {f} : fils'[g] = fils[g]
    BY <1>7, <1>t DEF Autrui, Commencer, fenetre, serveur
  <2>2. Marque(ouverte) => Marque(ouverte)'
    BY <2>1, Repose DEF Marque
  <2>3. << >> # <<"diffuser">>
    OBVIOUS
  <2>4. \A m : Suivi(m) => Suivi(m)'
    BY <2>1, <2>3, Repose DEF Suivi, Diffuse, Arrive
  <2> QED BY <1>p, <2>1, <2>2, <2>4
<1>8. ASSUME NEW f \in Fil, Entrer(f)
      PROVE  \/ Marque(ouverte)'
             \/ \A m \in 1..Len(ecrits') : DeLAutre(m)' => Suivi(m)'
  <2>1. /\ UNCHANGED <<montants, ouverte, lu, ecrits, descendants, connecte>>
        /\ Etape(f, "entrer") /\ Avancer(f)
    BY <1>8 DEF Entrer, fenetre, serveur
  <2>2. /\ \A g \in Fil \ {f} : fils'[g] = fils[g]
        /\ fils[f] \in EnCours
        /\ \/ fils[f].reste = <<"entrer">>
           \/ /\ fils[f].reste = <<"entrer", "marquer">>
              /\ fils'[f] = [fils[f] EXCEPT !.reste = <<"marquer">>]
    BY <2>1, Suite
  <2>3. fils[f].op = "rejoindre" /\ fils[f].reste # <<"entrer">>
    BY <1>n, <2>2, Lecteurs
  <2>4. fils'[f].op = fils[f].op /\ fils'[f].c = fils[f].c
    BY <2>2, <2>3 DEF EnCours
  <2>5. Marque(ouverte) => Marque(ouverte)'
    BY <2>1, <2>2, <2>4 DEF Marque
  <2>6. <<"entrer", "marquer">> # <<"diffuser">>
    OBVIOUS
  <2>7. \A m : Suivi(m) => Suivi(m)'
    BY <2>1, <2>2, <2>3, <2>6 DEF Suivi, Diffuse, Arrive
  <2> QED BY <1>p, <2>1, <2>5, <2>7
<1>9. ASSUME NEW f \in Fil, Marquer(f)
      PROVE  \/ Marque(ouverte)'
             \/ \A m \in 1..Len(ecrits') : DeLAutre(m)' => Suivi(m)'
  <2>1. /\ UNCHANGED <<montants, ouverte, ecrits, descendants, connecte>>
        /\ Etape(f, "marquer") /\ Avancer(f)
        /\ lu' = [lu EXCEPT ![fils[f].c] = Len(ecrits)]
    BY <1>9 DEF Marquer, fenetre, Lecture, Maintenant
  <2>2. \A g \in Fil \ {f} : fils'[g] = fils[g]
    BY <2>1, Suite
  <2>3. fils[f].reste # <<"diffuser">>
    <3>1. fils[f].reste = <<"marquer">> /\ <<"marquer">> # <<"diffuser">>
      BY <2>1, Suite
    <3> QED BY <3>1
  <2>4. \A m \in 1..Len(ecrits) : m <= lu[ouverte] => m <= lu'[ouverte]
    BY <1>t, <2>1
  <2>5. \A m \in 1..Len(ecrits) : Suivi(m) => Suivi(m)'
    <3>1. \A m : Diffuse(m) => Diffuse(m)'
      BY <2>2, <2>3 DEF Diffuse
    <3> QED BY <2>1, <2>4, <3>1 DEF Suivi, Arrive
  <2>6. CASE fils[f].c = ouverte /\ ouverte \in Conv
    <3>1. lu'[ouverte] = Len(ecrits)
      BY <1>t, <2>1, <2>6
    <3>2. \A m \in 1..Len(ecrits) : Suivi(m)'
      BY <1>t, <2>1, <3>1 DEF Suivi
    <3> QED BY <2>1, <3>2
  <2>7. CASE fils[f].c # ouverte
    <3>1. Marque(ouverte) => Marque(ouverte)'
      BY <2>1, <2>2, <2>7 DEF Marque
    <3> QED BY <1>p, <2>1, <2>5, <3>1
  <2> QED BY <1>t, <2>1, <2>6, <2>7
<1>10. ASSUME NEW f \in Fil, Creer(f)
       PROVE  \/ Marque(ouverte)'
              \/ \A m \in 1..Len(ecrits') : DeLAutre(m)' => Suivi(m)'
  <2> DEFINE w == [conv |-> fils[f].c, auteur |-> fils[f].par]
             p == [fils[f] EXCEPT !.reste = Tail(fils[f].reste), !.m = Len(ecrits) + 1]
  <2>1. /\ fils[f].reste # << >> /\ Head(fils[f].reste) = "creer"
        /\ ecrits' = Append(ecrits, w) /\ fils' = [fils EXCEPT ![f] = p]
        /\ UNCHANGED <<supprimes, lu, montants, descendants, connecte, ouverte>>
    BY <1>10, <1>t DEF Creer, Etape, fenetre
  <2>2. fils[f] \in EnCours /\ Tenu(fils[f], nature, ecrits, supprimes)
    BY <1>10, Autres
  <2>3. fils[f].reste = <<"creer", "diffuser">> /\ Tail(fils[f].reste) = <<"diffuser">>
    BY <2>1, <2>2, LesRestes DEF EnCours
  <2>4. p.m = Len(ecrits) + 1 /\ p.reste = <<"diffuser">>
    BY <2>2, <2>3 DEF EnCours
  <2>5. fils[f].op = "envoyer"
    BY <2>2, <2>3 DEF Tenu
  <2>6. fils'[f] = p /\ \A g \in Fil \ {f} : fils'[g] = fils[g]
    BY <1>t, <2>1
  <2>7. w \in Message
    BY <2>2 DEF EnCours, Message
  <2> HIDE DEF p, w
  <2>8. Len(ecrits') = Len(ecrits) + 1 /\ \A m \in 1..Len(ecrits) : ecrits'[m] = ecrits[m]
    BY <1>t, <2>1, <2>7, AppendProperties
  <2>9. Marque(ouverte) => Marque(ouverte)'
    BY <2>1, <2>5, <2>6 DEF Marque
  <2>10. fils[f].reste # <<"diffuser">>
    <3>1. <<"creer", "diffuser">> # <<"diffuser">>
      OBVIOUS
    <3> QED BY <2>3, <3>1
  <2>11. \A m : Suivi(m) => Suivi(m)'
    <3>1. \A m : Diffuse(m) => Diffuse(m)'
      BY <2>6, <2>10 DEF Diffuse
    <3> QED BY <2>1, <3>1 DEF Suivi, Arrive
  <2>12. \A m : m = Len(ecrits) + 1 => Suivi(m)'
    BY <2>4, <2>6 DEF Suivi, Diffuse
  <2>13. \A m \in 1..Len(ecrits) : DeLAutre(m)' => DeLAutre(m)
    BY <2>1, <2>8 DEF DeLAutre
  <2>14. \A m \in 1..Len(ecrits') : m \in 1..Len(ecrits) \/ m = Len(ecrits) + 1
    BY <1>t, <2>8
  <2> QED BY <1>l, <2>1, <2>9, <2>11, <2>12, <2>13, <2>14
<1>11. ASSUME NEW f \in Fil, DiffuserMessage(f) \/ AnnoncerSuppression(f)
       PROVE  \/ Marque(ouverte)'
              \/ \A m \in 1..Len(ecrits') : DeLAutre(m)' => Suivi(m)'
  <2>1. /\ UNCHANGED <<montants, ouverte, connecte, ecrits, lu, salles>>
        /\ \A m : Arrive(m) => Arrive(m)'
        /\ \A g \in Fil \ {f} : fils'[g] = fils[g]
        /\ fils[f] \in EnCours /\ Tenu(fils[f], nature, ecrits, supprimes)
        /\ DiffuserMessage(f) => fils[f].reste = <<"diffuser">>
        /\ AnnoncerSuppression(f) => fils[f].reste = <<"annoncerSuppression">>
    BY <1>11, Autres, Diffusee
  <2>2. <<"annoncerSuppression">> # <<"marquer">> /\ <<"diffuser">> # <<"marquer">>
    OBVIOUS
  <2>3. fils[f].op \notin {"rejoindre", "marquer"}
    <3>1. \A x, y, z : <<x, y>> # <<z>>
      OBVIOUS
    <3>2. <<"annoncerSuppression">> # <<"entrer">> /\ <<"diffuser">> # <<"entrer">>
      OBVIOUS
    <3> QED BY <1>11, <2>1, <2>2, <3>1, <3>2 DEF Tenu
  <2>4. Marque(ouverte) => Marque(ouverte)'
    BY <2>1, <2>3 DEF Marque
  <2>5. ASSUME NEW m \in 1..Len(ecrits), DeLAutre(m), Suivi(m)
        PROVE  Suivi(m)' \/ Marque(ouverte)'
    <3>1. CASE m <= lu[ouverte] \/ Arrive(m)
      BY <2>1, <3>1 DEF Suivi
    <3>2. ASSUME NEW g \in Fil, fils[g].m = m, fils[g].reste = <<"diffuser">>, g # f
          PROVE  Suivi(m)'
      BY <2>1, <3>2 DEF Suivi, Diffuse
    <3>3. CASE fils[f].m = m /\ fils[f].reste = <<"diffuser">>
      <4>1. DiffuserMessage(f)
        <5>1. <<"annoncerSuppression">> # <<"diffuser">>
          OBVIOUS
        <5> QED BY <1>11, <2>1, <3>3, <5>1
      <4>2. fils[f].c = ouverte
        <5>1. ecrits[m] = [conv |-> fils[f].c, auteur |-> fils[f].par]
          BY <3>3, Lecteurs
        <5> QED BY <2>5, <5>1 DEF DeLAutre
      <4>3. CASE ouverte \in salles
        BY <1>11, <2>1, <3>3, <4>1, <4>2, <4>3, Diffusee DEF Suivi
      <4>4. CASE ouverte \notin salles
        <5>1. \/ Annoncee(montants, ouverte)
              \/ \E g \in Fil : Entrant(fils[g], ouverte)
          BY <2>1, <4>4 DEF SalleSuivie
        <5>2. Annoncee(montants, ouverte) => Signale(montants, ouverte)
          BY DEF Annoncee, Signale, Rejoint
        <5>3. \A g \in Fil : Entrant(fils[g], ouverte) =>
                                fils[g].c = ouverte /\ fils[g].op = "rejoindre"
          BY Lecteurs DEF Entrant
        <5> QED BY <2>4, <5>1, <5>2, <5>3 DEF Marque
      <4> QED BY <4>3, <4>4
    <3> QED BY <2>5, <3>1, <3>2, <3>3 DEF Suivi, Diffuse
  <2> QED BY <1>p, <2>1, <2>4, <2>5
<1>12. ASSUME NEW f \in Fil, Supprimer(f)
       PROVE  \/ Marque(ouverte)'
              \/ \A m \in 1..Len(ecrits') : DeLAutre(m)' => Suivi(m)'
  <2>1. /\ UNCHANGED <<montants, ouverte, connecte, ecrits, lu, descendants>>
        /\ fils[f].reste # << >> /\ Head(fils[f].reste) = "supprimer"
    BY <1>12 DEF Supprimer, fenetre, Etape
  <2>2. /\ \A g \in Fil \ {f} : fils'[g] = fils[g]
        /\ fils[f] \in EnCours /\ Tenu(fils[f], nature, ecrits, supprimes)
    BY <1>12, Autres
  <2>3. fils[f].reste = <<"supprimer", "annoncerSuppression">>
    BY <2>1, <2>2, LesRestes DEF EnCours
  <2>4. fils[f].op = "supprimer" /\ fils[f].reste # <<"diffuser">>
    <3>1. <<"supprimer", "annoncerSuppression">> # <<"diffuser">>
      OBVIOUS
    <3> QED BY <2>2, <2>3, <3>1 DEF Tenu
  <2>5. Marque(ouverte) => Marque(ouverte)'
    BY <2>1, <2>2, <2>4 DEF Marque
  <2>6. \A m : Suivi(m) => Suivi(m)'
    BY <2>1, <2>2, <2>4 DEF Suivi, Diffuse, Arrive
  <2> QED BY <1>p, <2>1, <2>5, <2>6
<1>13. CASE UNCHANGED vars
  <2>1. UNCHANGED <<montants, fils, ouverte, connecte, ecrits, lu, descendants>>
    BY <1>13 DEF vars, fenetre, serveur
  <2>2. Marque(ouverte) => Marque(ouverte)'
    BY <2>1 DEF Marque
  <2>3. \A m : Suivi(m) => Suivi(m)'
    BY <2>1 DEF Suivi, Diffuse, Arrive
  <2> QED BY <1>p, <2>1, <2>2, <2>3
<1> QED BY <1>1, <1>2, <1>3, <1>4, <1>5, <1>6, <1>7, <1>8, <1>9, <1>10, <1>11, <1>12, <1>13 DEF Next

-----------------------------------------------------------------------------
(* What was written while the window was settled.                           *)

Sures(c) == surs \cap Recentes(c)

(* A history that is read has them all. *)
PagesSures ==
    \A r \in Requete :
        chargements[r].etape = "repondre" /\ chargements[r].avant = 0 =>
            Sures(chargements[r].c) \subseteq ToSet(chargements[r].page)

(* The window waits for a history of its conversation, or has them or will. *)
AfficheSuivie ==
    connecte /\ ouverte # Nul =>
        \/ \E r \in Requete : chargements[r].actif /\ chargements[r].avant = 0
        \/ \A m \in Sures(ouverte) :
              \/ affiche # Nul /\ m \in ToSet(affiche)
              \/ Arrive(m)
              \/ Diffuse(m) /\ ouverte \in salles /\ SansQuitter(montants, ouverte)

(* The last page has every message after which less than a page was written. *)
LEMMA DansLaPage ==
    ASSUME NEW c, ecrits \in Seq(Message)
    PROVE  Recentes(c) \subseteq ToSet(PageDe(c, 0))
<1> DEFINE S == {m \in Messages(c) : 0 \in supprimes \cup {0} \/ m < 0}
           T == {m \in S : Cardinality({n \in S : n > m}) < Page}
<1>1. Messages(c) \subseteq 1..Len(ecrits) /\ Len(ecrits) \in Nat /\ IsFiniteSet(1..Len(ecrits))
  BY LenProperties, FS_Interval DEF Messages
<1>2. T \in SUBSET Nat /\ IsFiniteSet(T)
  <2>1. T \subseteq 1..Len(ecrits) /\ 1..Len(ecrits) \subseteq Nat
    BY <1>1
  <2> HIDE DEF T
  <2> QED BY <1>1, <2>1, FS_Subset
<1>3. PageDe(c, 0) = EnOrdre(T)
  BY DEF PageDe
<1>4. ASSUME NEW m \in Recentes(c) PROVE m \in T
  <2> DEFINE A == {n \in (m + 1)..Len(ecrits) : ecrits[n].conv = c}
             B == {n \in S : n > m}
  <2>1. m \in Messages(c) /\ Cardinality(A) < Page
    BY DEF Recentes
  <2>2. B \subseteq A
    BY <1>1, <2>1 DEF Messages
  <2>3. IsFiniteSet(A)
    <3>1. A \subseteq 1..Len(ecrits)
      BY <1>1, <2>1
    <3> HIDE DEF A
    <3> QED BY <1>1, <3>1, FS_Subset
  <2> HIDE DEF A, B
  <2>4. Cardinality(B) <= Cardinality(A) /\ Cardinality(A) \in Nat /\ Cardinality(B) \in Nat
    BY <2>2, <2>3, FS_Subset, FS_CardinalityType
  <2>5. Cardinality(B) < Page
    BY <2>1, <2>4, ConversationAssumption
  <2> QED BY <2>1, <2>5 DEF B
<1> HIDE DEF T
<1>5. ToSet(PageDe(c, 0)) = T
  BY <1>2, <1>3, Ordonne
<1> QED BY <1>4, <1>5

(* Messages only stop being recent, but for the one written last.           *)
LEMMA LesSures ==
    ASSUME Types, [Next]_vars
    PROVE  \/ \A c : Sures(c)' \subseteq Sures(c)
           \/ \E f \in Fil :
                 /\ Creer(f) /\ Etablie(fils[f].c)
                 /\ \A c : Sures(c)' \subseteq Sures(c) \cup {Len(ecrits) + 1}
<1>t. /\ ecrits \in Seq(Message) /\ Len(ecrits) \in Nat /\ surs \subseteq 1..Len(ecrits)
      /\ fils \in [Fil -> EnCours \cup {Repos}]
  BY LenProperties DEF Types, TypeServeur, TypeFils
<1>1. ASSUME NEW e \in Seq(Message), NEW c, NEW m \in 1..Len(ecrits),
             Len(e) \in {Len(ecrits), Len(ecrits) + 1},
             \A n \in 1..Len(ecrits) : e[n] = ecrits[n],
             NEW s, supprimes \subseteq s,
             m \in {k \in 1..Len(e) : e[k].conv = c} \ s,
             Cardinality({n \in (m + 1)..Len(e) : e[n].conv = c}) < Page
      PROVE  m \in Recentes(c)
  <2> DEFINE A == {n \in (m + 1)..Len(ecrits) : ecrits[n].conv = c}
             B == {n \in (m + 1)..Len(e) : e[n].conv = c}
  <2>1. m \in Messages(c)
    BY <1>1 DEF Messages
  <2>2. A \subseteq B /\ B \subseteq 1..Len(e) /\ Len(e) \in Nat
    BY <1>t, <1>1
  <2>3. IsFiniteSet(1..Len(e))
    BY <2>2, FS_Interval
  <2>4. Cardinality(B) < Page
    BY <1>1
  <2> HIDE DEF A, B
  <2>5. IsFiniteSet(B)
    BY <2>2, <2>3, FS_Subset
  <2>6. Cardinality(A) <= Cardinality(B) /\ Cardinality(A) \in Nat /\ Cardinality(B) \in Nat
    BY <2>2, <2>5, FS_Subset, FS_CardinalityType
  <2>7. Cardinality(A) < Page
    BY <2>4, <2>6, ConversationAssumption
  <2> QED BY <2>1, <2>7 DEF Recentes, A
<1>2. ASSUME UNCHANGED <<ecrits, surs>>, supprimes \subseteq supprimes'
      PROVE  \A c : Sures(c)' \subseteq Sures(c)
  <2> TAKE c
  <2> SUFFICES ASSUME NEW m \in Sures(c)' PROVE m \in Sures(c)
    OBVIOUS
  <2>1. /\ m \in surs /\ m \in {k \in 1..Len(ecrits) : ecrits[k].conv = c} \ supprimes'
        /\ Cardinality({n \in (m + 1)..Len(ecrits) : ecrits[n].conv = c}) < Page
    BY <1>2 DEF Sures, Recentes, Messages
  <2> QED BY <1>t, <1>1, <1>2, <2>1 DEF Sures
<1>3. ASSUME NEW f \in Fil, Creer(f)
      PROVE  \/ \A c : Sures(c)' \subseteq Sures(c)
             \/ /\ Etablie(fils[f].c)
                /\ \A c : Sures(c)' \subseteq Sures(c) \cup {Len(ecrits) + 1}
  <2> DEFINE w == [conv |-> fils[f].c, auteur |-> fils[f].par]
  <2>1. /\ ecrits' = Append(ecrits, w) /\ supprimes' = supprimes
        /\ surs' = IF Etablie(fils[f].c) THEN surs \cup {Len(ecrits) + 1} ELSE surs
    BY <1>3 DEF Creer
  <2>2. w \in Message
    <3>1. fils[f] \in EnCours
      BY <1>3, Autres
    <3> QED BY <3>1 DEF EnCours, Message
  <2> HIDE DEF w
  <2>3. /\ ecrits' \in Seq(Message) /\ Len(ecrits') = Len(ecrits) + 1
        /\ \A n \in 1..Len(ecrits) : ecrits'[n] = ecrits[n]
    BY <1>t, <2>1, <2>2, AppendProperties
  <2>4. ASSUME NEW c, NEW m \in Sures(c)', m \in surs PROVE m \in Sures(c)
    <3>1. /\ m \in {k \in 1..Len(ecrits') : ecrits'[k].conv = c} \ supprimes'
          /\ Cardinality({n \in (m + 1)..Len(ecrits') : ecrits'[n].conv = c}) < Page
      BY <2>4 DEF Sures, Recentes, Messages
    <3>2. m \in Recentes(c)
      BY <1>t, <1>1, <2>1, <2>3, <2>4, <3>1
    <3> QED BY <2>4, <3>2 DEF Sures
  <2>5. \A c : Sures(c)' \subseteq surs'
    BY DEF Sures
  <2>6. CASE Etablie(fils[f].c)
    BY <2>1, <2>4, <2>5, <2>6
  <2>7. CASE ~Etablie(fils[f].c)
    BY <2>1, <2>4, <2>5, <2>7
  <2> QED BY <2>6, <2>7
<1>4. (~\E f \in Fil : Creer(f)) => UNCHANGED <<ecrits, surs>> /\ supprimes \subseteq supprimes'
  BY DEF Next, vars, Ouvrir, Fermer, Connexion, Coupure, EcrireMessage, SupprimerMessage,
         ChargerPlus, RecevoirEvenement, RecevoirHistorique, MarquerHistorique, LireHistorique,
         Prendre, Autrui, Entrer, Marquer, DiffuserMessage, Supprimer,
         AnnoncerSuppression, serveur
<1> QED BY <1>2, <1>3, <1>4

(* Where an answer comes from: it was there, or it has just been read.      *)
LEMMA Reponses ==
    ASSUME Types, [Next]_vars, NEW r \in Requete, chargements'[r].etape = "repondre",
           chargements'[r].avant = 0
    PROVE  \/ /\ chargements[r].etape = "repondre" /\ chargements[r].avant = 0
              /\ chargements'[r].c = chargements[r].c
              /\ chargements'[r].page = chargements[r].page
           \/ /\ UNCHANGED <<ecrits, supprimes, surs>>
              /\ chargements'[r].page = PageDe(chargements'[r].c, 0)
<1> DEFINE Meme == /\ chargements[r].etape = "repondre" /\ chargements[r].avant = 0
                   /\ chargements'[r].c = chargements[r].c
                   /\ chargements'[r].page = chargements[r].page
<1>t. /\ chargements \in [Requete -> Charge \cup {Aucun}] /\ ouverte \in Conv \cup {Nul}
      /\ affiche \in Seq(Nat) \cup {Nul} /\ (ouverte = Nul => affiche = Nul)
  BY DEF Types, TypeFenetre
<1>s. UNCHANGED chargements => Meme
  OBVIOUS
<1>1. ASSUME NEW x \in Requete, NEW c \in Conv, NEW avant \in Nat,
             chargements' = [chargements EXCEPT ![x] = Demande(c, avant)]
      PROVE  Meme
  <2>1. x # r
    BY <1>t, <1>1, Demandes
  <2> QED BY <1>t, <1>1, <2>1
<1>2. ASSUME NEW c \in Conv, Ouvrir(c) PROVE Meme
  <2> PICK x \in Requete : chargements' = [Oublies EXCEPT ![x] = Demande(c, 0)]
    BY <1>2 DEF Ouvrir
  <2>1. x # r
    BY Oubli, Demandes
  <2> QED BY <2>1, Oubli
<1>3. CASE Fermer
  BY <1>3, Oubli DEF Fermer
<1>4. CASE Connexion
  <2>1. CASE ouverte = Nul
    BY <1>4, <1>s, <2>1 DEF Connexion, RejoindreEncore
  <2>2. CASE ouverte # Nul
    BY <1>1, <1>t, <1>4, <2>2 DEF Connexion, RejoindreEncore
  <2> QED BY <2>1, <2>2
<1>5. CASE ChargerPlus
  <2>1. affiche # Nul /\ affiche # << >>
    BY <1>5 DEF ChargerPlus
  <2>2. affiche[1] \in Nat /\ ouverte \in Conv
    BY <1>t, <2>1, Ote
  <2> PICK x \in Requete :
              chargements' = [chargements EXCEPT ![x] = Demande(ouverte, affiche[1])]
    BY <1>5 DEF ChargerPlus
  <2> QED BY ZenonT(40), <1>1, <2>2
<1>6. ASSUME NEW x \in Requete, RecevoirHistorique(x) PROVE Meme
  <2>1. chargements' = [chargements EXCEPT ![x] = Aucun]
    BY <1>6 DEF RecevoirHistorique
  <2>2. x # r
    BY <1>t, <2>1, SansDemande
  <2> QED BY <1>t, <2>1, <2>2
<1>7. ASSUME NEW x \in Requete, MarquerHistorique(x) PROVE Meme
  <2>1. chargements[x].etape = "marquer"
        /\ chargements' = [chargements EXCEPT ![x] = [chargements[x] EXCEPT !.etape = "lire"]]
    BY <1>7 DEF MarquerHistorique
  <2>2. chargements[x] \in Charge
    BY <1>t, <2>1, SansDemande
  <2>3. [chargements[x] EXCEPT !.etape = "lire"].etape = "lire"
    BY <2>2 DEF Charge
  <2>4. x # r
    BY <1>t, <2>1, <2>3
  <2> QED BY <1>t, <2>1, <2>4
<1>8. ASSUME NEW x \in Requete, LireHistorique(x)
      PROVE  \/ Meme
             \/ /\ UNCHANGED <<ecrits, supprimes, surs>>
                /\ chargements'[r].page = PageDe(chargements'[r].c, 0)
  <2> DEFINE p == PageDe(chargements[x].c, chargements[x].avant)
             q == [chargements[x] EXCEPT !.etape = "repondre", !.page = p]
  <2>1. /\ chargements[x].etape = "lire" /\ chargements' = [chargements EXCEPT ![x] = q]
        /\ UNCHANGED <<ecrits, supprimes, surs>>
    BY <1>8, <1>t DEF LireHistorique, serveur
  <2>2. chargements[x] \in Charge
    BY <1>t, <2>1, SansDemande
  <2>3. q.page = p /\ q.avant = chargements[x].avant /\ q.c = chargements[x].c
    BY <2>2 DEF Charge
  <2> HIDE DEF q
  <2>4. CASE x = r
    <3>1. chargements'[r] = q
      BY <1>t, <2>1, <2>4
    <3> QED BY <2>1, <2>3, <2>4, <3>1
  <2>5. CASE x # r
    BY <1>t, <2>1, <2>5
  <2> QED BY <2>4, <2>5
<1> HIDE DEF Meme
<1>9. ASSUME \/ Coupure \/ EcrireMessage \/ RecevoirEvenement
             \/ \E m \in 1..Len(ecrits) : SupprimerMessage(m)
             \/ \E f \in Fil :
                   \/ Prendre(f) \/ Autrui(f) \/ Entrer(f) \/ Marquer(f) \/ Creer(f)
                   \/ DiffuserMessage(f) \/ Supprimer(f) \/ AnnoncerSuppression(f)
             \/ UNCHANGED vars
      PROVE  UNCHANGED chargements
  BY <1>9 DEF Coupure, EcrireMessage, RecevoirEvenement, SupprimerMessage, Prendre, Autrui, Entrer,
              Marquer, Creer, DiffuserMessage, Supprimer, AnnoncerSuppression, vars
<1> QED BY <1>s, <1>2, <1>3, <1>4, <1>5, <1>6, <1>7, <1>8, <1>9 DEF Next, Meme

(* An answer on its way keeps the messages that matter. *)
LEMMA PagesStep == Types /\ PagesSures /\ [Next]_vars => PagesSures'
<1> SUFFICES ASSUME Types, PagesSures, [Next]_vars, NEW r \in Requete,
                    chargements'[r].etape = "repondre", chargements'[r].avant = 0,
                    NEW c, c = chargements'[r].c
             PROVE  Sures(c)' \subseteq ToSet(chargements'[r].page)
  BY DEF PagesSures
<1>1. CASE /\ chargements[r].etape = "repondre" /\ chargements[r].avant = 0
           /\ chargements'[r].c = chargements[r].c
           /\ chargements'[r].page = chargements[r].page
  <2>1. Sures(c) \subseteq ToSet(chargements'[r].page)
    BY <1>1 DEF PagesSures
  <2>2. ASSUME NEW f \in Fil, Creer(f), Etablie(fils[f].c) PROVE FALSE
    BY <1>1, <2>2, SansDemande DEF Etablie, Libre
  <2> QED BY <2>1, <2>2, LesSures
<1>2. CASE /\ UNCHANGED <<ecrits, supprimes, surs>>
           /\ chargements'[r].page = PageDe(chargements'[r].c, 0)
  <2>1. Recentes(c) \subseteq ToSet(PageDe(c, 0))
    BY DansLaPage DEF Types, TypeServeur
  <2>2. Sures(c)' = Sures(c)
    BY <1>2 DEF Sures, Recentes, Messages
  <2> QED BY <1>2, <2>1, <2>2 DEF Sures
<1> QED BY <1>1, <1>2, Reponses

(* The window has or will have them at every step. *)
LEMMA AfficheStep == Types /\ PagesSures /\ AfficheSuivie /\ [Next]_vars => AfficheSuivie'
<1> DEFINE Attend == \E r \in Requete : chargements[r].actif /\ chargements[r].avant = 0
           Vient(m) == \/ affiche # Nul /\ m \in ToSet(affiche)
                       \/ Arrive(m)
                       \/ Diffuse(m) /\ ouverte \in salles /\ SansQuitter(montants, ouverte)
<1>0. SUFFICES ASSUME Types, PagesSures, AfficheSuivie, [Next]_vars, connecte',
                      NEW d, d = ouverte', d # Nul
               PROVE  Attend' \/ \A m \in Sures(d)' : Vient(m)'
  <2>1. \A d : d = ouverte' => Sures(d)' = Sures(ouverte)'
    BY DEF Sures, Recentes, Messages
  <2> HIDE DEF Vient, Attend
  <2>2. (connecte' /\ ouverte' # Nul => Attend' \/ \A m \in Sures(ouverte)' : Vient(m)')
           => AfficheSuivie'
    BY DEF AfficheSuivie, Vient, Attend
  <2> QED BY <1>0, <2>1, <2>2
<1>t. /\ montants \in Seq(Montant) /\ ouverte \in Conv \cup {Nul} /\ ecrits \in Seq(Message)
      /\ fils \in [Fil -> EnCours \cup {Repos}] /\ Nul \notin Conv
      /\ descendants \in Seq(Descendant) /\ affiche \in Seq(Nat) \cup {Nul}
      /\ \A k \in DOMAIN descendants :
            descendants[k].op = "supprime" => descendants[k].m \in supprimes
      /\ chargements \in [Requete -> Charge \cup {Aucun}]
      /\ \A r \in Requete : chargements[r].actif => chargements[r].c = ouverte
      /\ Nul \notin Seq(Nat)
  BY <1>0, ConversationAssumption
     DEF Types, TypeEvenements, TypeFenetre, TypeFils, TypeServeur
<1>a. connecte /\ ouverte # Nul => Attend \/ \A m \in Sures(ouverte) : Vient(m)
  BY <1>0 DEF AfficheSuivie
<1>m. \A c : \A m \in Sures(c) : m \notin supprimes /\ m \in 1..Len(ecrits) /\ ecrits[m].conv = c
  BY DEF Sures, Recentes, Messages
<1> HIDE DEF Attend, Vient
(* When nothing is written, each of them stays on its way. *)
<1>p. ASSUME Sures(d)' \subseteq Sures(d), UNCHANGED <<ouverte, connecte>>,
             Attend => Attend' \/ \A m \in Sures(d) : Vient(m)',
             \A m \in Sures(d) : Vient(m) => Vient(m)'
      PROVE  Attend' \/ \A m \in Sures(d)' : Vient(m)'
  BY <1>0, <1>a, <1>p
<1>u. UNCHANGED <<ecrits, supprimes, surs>> => Sures(d)' \subseteq Sures(d)
  BY DEF Sures, Recentes, Messages
<1>v. ASSUME UNCHANGED <<ouverte, affiche>>, \A m : Arrive(m) => Arrive(m)',
             \A g \in Fil : fils[g].reste = <<"diffuser">> => fils'[g] = fils[g],
             ouverte \in salles => ouverte \in salles',
             SansQuitter(montants, ouverte) => SansQuitter(montants', ouverte)
      PROVE  \A m : Vient(m) => Vient(m)'
  <2>1. \A m : Diffuse(m) => Diffuse(m)'
    BY <1>v DEF Diffuse
  <2> QED BY <1>v, <2>1 DEF Vient
<1>w. UNCHANGED chargements => (Attend => Attend')
  BY DEF Attend
<1>1. ASSUME \/ EcrireMessage \/ \E m \in 1..Len(ecrits) : SupprimerMessage(m)
             \/ \E r \in Requete : MarquerHistorique(r) \/ LireHistorique(r)
             \/ ChargerPlus
      PROVE  Attend' \/ \A m \in Sures(d)' : Vient(m)'
  <2>1. /\ UNCHANGED <<ouverte, connecte, fils, ecrits, salles, supprimes, surs>>
        /\ \/ montants' = montants
           \/ \E e \in Montant : e.op \notin {"quitter", "rejoindre"}
                                 /\ montants' = montants \o <<e>>
    BY <1>0, <1>1, Emissions
  <2>2. UNCHANGED <<affiche, descendants>>
    BY <1>1 DEF EcrireMessage, SupprimerMessage, MarquerHistorique, LireHistorique, ChargerPlus,
                fenetre
  <2>3. SansQuitter(montants, ouverte) => SansQuitter(montants', ouverte)
    <3>1. ASSUME NEW e \in Montant, e.op # "quitter", montants' = montants \o <<e>>
          PROVE  SansQuitter(montants, ouverte) => SansQuitter(montants', ouverte)
      <4>1. ~Quitte(e, ouverte)
        BY <3>1 DEF Quitte
      <4> QED BY <1>t, <3>1, <4>1, EnFile
    <3> QED BY <2>1, <3>1
  <2>4. \A m : Vient(m) => Vient(m)'
    <3>1. \A m : Arrive(m) => Arrive(m)'
      BY <2>2 DEF Arrive
    <3> QED BY <1>v, <2>1, <2>2, <2>3, <3>1
  <2>5. Attend => Attend'
    <3>1. ASSUME NEW r \in Requete, NEW e \in {"lire", "repondre"}, NEW l,
                 chargements' = [chargements EXCEPT ![r] =
                                    [chargements[r] EXCEPT !.etape = e, !.page = l]],
                 chargements[r] \in Charge
          PROVE  Attend => Attend'
      <4>1. chargements'[r].actif = chargements[r].actif /\ chargements'[r].avant = chargements[r].avant
        BY <1>t, <3>1 DEF Charge
      <4>2. \A x \in Requete \ {r} : chargements'[x] = chargements[x]
        BY <1>t, <3>1
      <4> QED BY <4>1, <4>2 DEF Attend
    <3>2. ASSUME NEW r \in Requete, MarquerHistorique(r) PROVE Attend => Attend'
      <4>1. /\ chargements[r].etape = "marquer"
            /\ chargements' = [chargements EXCEPT ![r] = [chargements[r] EXCEPT !.etape = "lire"]]
        BY <3>2 DEF MarquerHistorique
      <4>2. chargements[r] \in Charge
        BY <1>t, <4>1, SansDemande
      <4>3. [chargements[r] EXCEPT !.etape = "lire"]
               = [chargements[r] EXCEPT !.etape = "lire", !.page = chargements[r].page]
        BY <4>2 DEF Charge
      <4> QED BY <3>1, <4>1, <4>2, <4>3
    <3>3. ASSUME NEW r \in Requete, LireHistorique(r) PROVE Attend => Attend'
      <4>1. /\ chargements[r].etape = "lire"
            /\ chargements' = [chargements EXCEPT ![r] =
                  [chargements[r] EXCEPT !.etape = "repondre",
                                         !.page = PageDe(chargements[r].c, chargements[r].avant)]]
        BY <1>t, <3>3 DEF LireHistorique
      <4>2. chargements[r] \in Charge
        BY <1>t, <4>1, SansDemande
      <4> QED BY <3>1, <4>1, <4>2
    <3>4. CASE ChargerPlus
      <4> PICK r \in Requete :
                  Libre(r) /\ chargements' = [chargements EXCEPT ![r] = Demande(ouverte, affiche[1])]
        BY <3>4 DEF ChargerPlus
      <4>1. ~chargements[r].actif /\ \A x \in Requete \ {r} : chargements'[x] = chargements[x]
        BY <1>t, SansDemande DEF Libre
      <4> QED BY <4>1 DEF Attend
    <3>5. CASE EcrireMessage \/ \E m \in 1..Len(ecrits) : SupprimerMessage(m)
      BY <1>w, <3>5 DEF EcrireMessage, SupprimerMessage
    <3> QED BY <1>1, <3>2, <3>3, <3>4, <3>5
  <2> QED BY <1>p, <1>u, <2>1, <2>4, <2>5
<1>2. ASSUME Connexion \/ \E c \in Conv : Ouvrir(c) PROVE Attend'
  <2>1. ASSUME NEW c \in Conv, NEW r \in Requete, NEW q \in [Requete -> Charge \cup {Aucun}],
               chargements' = [q EXCEPT ![r] = Demande(c, 0)]
        PROVE  Attend'
    <3>1. chargements'[r] = Demande(c, 0)
      BY <2>1
    <3> QED BY <3>1, Demandes DEF Attend
  <2>2. ASSUME NEW c \in Conv, Ouvrir(c) PROVE Attend'
    <3> PICK r \in Requete : chargements' = [Oublies EXCEPT ![r] = Demande(c, 0)]
      BY <2>2 DEF Ouvrir
    <3> QED BY <1>0, <2>1, Oubli
  <2>3. CASE Connexion
    <3>1. ouverte # Nul
      BY <1>0, <2>3 DEF Connexion, fenetre
    <3> PICK r \in Requete : chargements' = [chargements EXCEPT ![r] = Demande(ouverte, 0)]
      BY <2>3, <3>1 DEF Connexion, RejoindreEncore
    <3> QED BY <1>t, <2>1, <3>1
  <2> QED BY <1>2, <2>2, <2>3
<1>3. CASE Fermer \/ Coupure
  BY <1>0, <1>3 DEF Fermer, Coupure
<1>4. ASSUME NEW r \in Requete, RecevoirHistorique(r)
      PROVE  Attend' \/ \A m \in Sures(d)' : Vient(m)'
  <2> DEFINE q == chargements[r]
  <2>1. /\ q.etape = "repondre" /\ chargements' = [chargements EXCEPT ![r] = Aucun]
        /\ affiche' = IF ~q.actif THEN affiche ELSE IF q.avant = 0 THEN q.page
                      ELSE q.page \o (IF affiche = Nul THEN << >> ELSE affiche)
        /\ UNCHANGED <<ecrits, supprimes, surs, fils, salles, connecte, ouverte, montants, descendants>>
    BY <1>4 DEF RecevoirHistorique, serveur
  <2>2. q \in Charge
    BY <1>t, <2>1, SansDemande
  <2>3. q.page \in Seq(Nat)
    BY <2>2 DEF Charge
  <2>4. \A x \in Requete \ {r} : chargements'[x] = chargements[x]
    BY <1>t, <2>1
  <2>5. Sures(d)' \subseteq Sures(d)
    BY <1>u, <2>1
  <2>6. CASE q.actif /\ q.avant = 0
    <3>1. q.c = d /\ affiche' = q.page /\ affiche' # Nul
      BY <1>0, <1>t, <2>1, <2>3, <2>6
    <3>2. Sures(d) \subseteq ToSet(affiche')
      BY <1>0, <2>1, <2>6, <3>1 DEF PagesSures
    <3> QED BY <2>5, <3>1, <3>2 DEF Vient
  <2>7. CASE ~(q.actif /\ q.avant = 0)
    <3>1. Attend => Attend'
      BY <2>4, <2>7 DEF Attend
    <3>2. affiche # Nul => affiche' # Nul /\ ToSet(affiche) \subseteq ToSet(affiche')
      <4>1. CASE affiche' = affiche
        BY <4>1
      <4>2. CASE affiche # Nul /\ affiche' = q.page \o affiche
        <5>1. affiche \in Seq(Nat)
          BY <1>t, <4>2
        <5>2. /\ affiche' \in Seq(Nat) /\ Len(affiche') = Len(q.page) + Len(affiche)
              /\ \A i \in 1..Len(affiche) : affiche'[Len(q.page) + i] = affiche[i]
              /\ Len(q.page) \in Nat /\ Len(affiche) \in Nat
          BY <2>3, <4>2, <5>1, ConcatProperties, LenProperties
        <5>3. DOMAIN affiche = 1..Len(affiche) /\ DOMAIN affiche' = 1..Len(affiche')
          BY <5>1, <5>2, LenProperties
        <5>4. \A i \in 1..Len(affiche) : Len(q.page) + i \in 1..Len(affiche')
          BY <5>2
        <5> HIDE DEF q
        <5>5. ToSet(affiche) \subseteq ToSet(affiche')
          BY <5>2, <5>3, <5>4 DEF ToSet
        <5> QED BY <1>t, <5>2, <5>5
      <4> QED BY <2>1, <2>7, <4>1, <4>2
    <3>3. \A m : Vient(m) => Vient(m)'
      BY <2>1, <3>2 DEF Vient, Arrive, Diffuse
    <3> QED BY <1>p, <2>1, <2>5, <3>1, <3>3
  <2> QED BY <2>6, <2>7
<1>5. ASSUME RecevoirEvenement
      PROVE  Attend' \/ \A m \in Sures(d)' : Vient(m)'
  <2> DEFINE e == Head(descendants)
  <2>1. /\ UNCHANGED <<ouverte, connecte, fils, ecrits, supprimes, surs, salles, chargements>>
        /\ descendants # << >> /\ descendants' = Tail(descendants) /\ ouverte # Nul
        /\ \/ e.op = "message" /\ SurMessage(e)
           \/ e.op = "supprime" /\ SurSuppression(e)
    BY <1>0, <1>5 DEF RecevoirEvenement, serveur
  <2>2. /\ e = descendants[1] /\ e \in Descendant /\ 1 \in DOMAIN descendants
        /\ \A k \in DOMAIN descendants : k # 1 => k - 1 \in DOMAIN descendants'
        /\ \A k \in DOMAIN descendants' : descendants'[k] = descendants[k + 1]
        /\ DOMAIN descendants \subseteq Nat
    <3>1. DOMAIN descendants = 1..Len(descendants) /\ Len(descendants) \in Nat
      BY <1>t, LenProperties
    <3> QED BY <1>t, <2>1, <3>1, Ote
  <2>3. e.m \in Nat
    BY <2>2 DEF Descendant
  <2> HIDE DEF e
  <2>4. \A m : Arrive(m) => Arrive(m)' \/ (e.op = "message" /\ e.m = m)
    <3> SUFFICES ASSUME NEW m, NEW k \in DOMAIN descendants, k # 1,
                        descendants[k].op = "message", descendants[k].m = m
                 PROVE  Arrive(m)'
      BY <2>2 DEF Arrive
    <3>1. k - 1 \in DOMAIN descendants' /\ (k - 1) + 1 = k
      BY <2>2
    <3>2. descendants'[k - 1] = descendants[k]
      BY <2>2, <3>1
    <3> QED BY <3>1, <3>2 DEF Arrive
  <2>5. \A m \in Sures(d) : affiche # Nul /\ m \in ToSet(affiche)
                               => affiche' # Nul /\ m \in ToSet(affiche')
    <3> SUFFICES ASSUME affiche # Nul
                 PROVE  affiche' # Nul /\ \A m \in Sures(d) \cap ToSet(affiche) : m \in ToSet(affiche')
      OBVIOUS
    <3>0. affiche \in Seq(Nat)
      BY <1>t
    <3>1. CASE SurMessage(e)
      <4>1. affiche' = Append(affiche, e.m)
        BY <3>1 DEF SurMessage
      <4>2. /\ affiche' \in Seq(Nat) /\ \A k \in DOMAIN affiche : k \in DOMAIN affiche'
            /\ \A k \in DOMAIN affiche : affiche'[k] = affiche[k]
        BY <2>3, <3>0, <4>1, Pousse
      <4> QED BY <1>t, <4>2 DEF ToSet
    <3>2. CASE e.op = "supprime" /\ SurSuppression(e)
      <4>1. affiche' = Sauf(affiche, e.m)
        BY <3>2 DEF SurSuppression
      <4>2. affiche' \in Seq(Nat) /\ ToSet(affiche') = ToSet(affiche) \ {e.m}
        BY <3>0, <4>1, Retire
      <4>3. e.m \in supprimes
        BY <1>t, <2>2, <3>2
      <4> QED BY <1>m, <1>t, <4>2, <4>3
    <3> QED BY <2>1, <3>1, <3>2
  <2>6. \A m : e.op = "message" /\ e.m = m => affiche' # Nul /\ m \in ToSet(affiche')
    <3> SUFFICES ASSUME e.op = "message" PROVE affiche' # Nul /\ e.m \in ToSet(affiche')
      OBVIOUS
    <3>1. affiche' = IF affiche = Nul THEN <<e.m>> ELSE Append(affiche, e.m)
      BY <2>1 DEF SurMessage
    <3>2. CASE affiche = Nul
      <4>1. affiche' = <<e.m>> /\ <<e.m>> \in Seq(Nat)
        BY <2>3, <3>1, <3>2
      <4>2. 1 \in DOMAIN affiche' /\ affiche'[1] = e.m
        BY <4>1
      <4> QED BY <1>t, <4>1, <4>2 DEF ToSet
    <3>3. CASE affiche # Nul
      <4>1. affiche \in Seq(Nat)
        BY <1>t, <3>3
      <4>2. /\ affiche' \in Seq(Nat) /\ Len(affiche) + 1 \in DOMAIN affiche'
            /\ affiche'[Len(affiche) + 1] = e.m
        BY <2>3, <3>1, <3>3, <4>1, Pousse
      <4> QED BY <1>t, <4>2 DEF ToSet
    <3> QED BY <3>2, <3>3
  <2>7. SansQuitter(montants, ouverte) => SansQuitter(montants', ouverte)
    <3> DEFINE j == [op |-> "marquer", c |-> ouverte, m |-> 0]
    <3>1. montants' = montants \/ montants' = montants \o <<j>>
      BY <2>1 DEF SurMessage, SurSuppression, Monter
    <3>2. j \in Montant /\ ~Quitte(j, ouverte)
      BY <1>t, <2>1 DEF Montant, Ordre, Quitte
    <3> HIDE DEF j
    <3>3. CASE montants' = montants \o <<j>>
      BY <1>t, <3>2, <3>3, EnFile
    <3> QED BY <3>1, <3>3
  <2>8. \A m \in Sures(d) : Vient(m) => Vient(m)'
    BY <2>1, <2>4, <2>5, <2>6, <2>7 DEF Vient, Diffuse
  <2> QED BY <1>p, <1>u, <1>w, <2>1, <2>8
<1>6. ASSUME NEW f \in Fil, Prendre(f) \/ Autrui(f)
      PROVE  Attend' \/ \A m \in Sures(d)' : Vient(m)'
  <2> DEFINE e == Head(montants)
  <2>1. /\ UNCHANGED <<bornes, ecrits, supprimes, surs, ouverte, connecte, descendants, affiche,
                       chargements>>
        /\ Prendre(f) =>
              /\ montants # << >> /\ montants' = Tail(montants)
              /\ \/ e.op = "quitter" /\ salles' = salles \ {e.c} /\ UNCHANGED fils
                 \/ e.op # "quitter" /\ Commencer(f, e.op, "moi", e.c, e.m) /\ UNCHANGED salles
        /\ Autrui(f) => /\ UNCHANGED <<montants, salles>>
                        /\ \E c \in bornes.convs : Commencer(f, "envoyer", "autre", c, 0)
    BY <1>6 DEF Prendre, Autrui, serveur, fenetre
  <2> HIDE DEF e
  <2>2. UNCHANGED fils \/ (fils[f] = Repos /\ \A g \in Fil \ {f} : fils'[g] = fils[g])
    BY <1>t, <1>6, <2>1 DEF Commencer
  <2>3. \A g \in Fil : fils[g].reste = <<"diffuser">> => fils'[g] = fils[g]
    <3>1. << >> # <<"diffuser">>
      OBVIOUS
    <3> QED BY <2>2, <3>1, Repose
  <2>4. SansQuitter(montants, ouverte) =>
           SansQuitter(montants', ouverte) /\ (ouverte \in salles => ouverte \in salles')
    <3>1. CASE Prendre(f)
      <4>1. SansQuitter(montants, ouverte) => SansQuitter(Tail(montants), ouverte) /\ ~Quitte(e, ouverte)
        BY <1>t, <2>1, <3>1, HorsFile DEF e
      <4> QED BY <2>1, <3>1, <4>1 DEF Quitte
    <3> QED BY <1>6, <2>1, <3>1
  <2>5. \A m : Vient(m) => Vient(m)'
    <3>1. \A m : Diffuse(m) => Diffuse(m)'
      BY <2>3 DEF Diffuse
    <3> QED BY <2>1, <2>4, <3>1 DEF Vient, Arrive
  <2> QED BY <1>p, <1>u, <1>w, <2>1, <2>5
<1>7. ASSUME NEW f \in Fil, Entrer(f) \/ Marquer(f)
      PROVE  Attend' \/ \A m \in Sures(d)' : Vient(m)'
  <2>1. /\ UNCHANGED <<ecrits, supprimes, surs, ouverte, connecte, descendants, affiche, montants,
                       chargements>>
        /\ salles \subseteq salles'
        /\ (Etape(f, "entrer") \/ Etape(f, "marquer")) /\ Avancer(f)
    BY <1>7 DEF Entrer, Marquer, serveur, fenetre
  <2>2. /\ \A g \in Fil \ {f} : fils'[g] = fils[g]
        /\ fils[f].reste \in {<<"entrer">>, <<"entrer", "marquer">>, <<"marquer">>}
    BY <1>0, <2>1, Suite
  <2>3. \A g \in Fil : fils[g].reste = <<"diffuser">> => fils'[g] = fils[g]
    <3>1. <<"entrer">> # <<"diffuser">> /\ <<"marquer">> # <<"diffuser">>
      OBVIOUS
    <3>2. <<"entrer", "marquer">> # <<"diffuser">>
      OBVIOUS
    <3> QED BY <2>2, <3>1, <3>2
  <2>4. \A m : Vient(m) => Vient(m)'
    BY <1>v, <2>1, <2>3 DEF Arrive
  <2> QED BY <1>p, <1>u, <1>w, <2>1, <2>4
<1>8. ASSUME NEW f \in Fil, Creer(f)
      PROVE  Attend' \/ \A m \in Sures(d)' : Vient(m)'
  <2> DEFINE n == Len(ecrits) + 1
             p == [fils[f] EXCEPT !.reste = Tail(fils[f].reste), !.m = n]
  <2>1. /\ fils[f].reste # << >> /\ Head(fils[f].reste) = "creer" /\ fils' = [fils EXCEPT ![f] = p]
        /\ ecrits' = Append(ecrits, [conv |-> fils[f].c, auteur |-> fils[f].par])
        /\ surs' = IF Etablie(fils[f].c) THEN surs \cup {n} ELSE surs
        /\ UNCHANGED <<supprimes, salles, montants, descendants, connecte, ouverte, affiche,
                       chargements>>
    BY <1>8, <1>t DEF Creer, Etape, fenetre
  <2>2. fils[f] \in EnCours
    BY <1>0, <1>8, Autres
  <2>3. fils[f].reste = <<"creer", "diffuser">> /\ Tail(fils[f].reste) = <<"diffuser">>
    BY <2>1, <2>2, LesRestes DEF EnCours
  <2>4. p.m = n /\ p.reste = <<"diffuser">>
    BY <2>2, <2>3 DEF EnCours
  <2> HIDE DEF p
  <2>5. fils'[f] = p /\ \A g \in Fil \ {f} : fils'[g] = fils[g]
    BY <1>t, <2>1
  <2>6. \A g \in Fil : fils[g].reste = <<"diffuser">> => fils'[g] = fils[g]
    <3>1. <<"creer", "diffuser">> # <<"diffuser">>
      OBVIOUS
    <3> QED BY <2>3, <2>5, <3>1
  <2>7. \A m : Vient(m) => Vient(m)'
    BY <1>v, <2>1, <2>6 DEF Arrive
  <2>8. \A m : m = n => Diffuse(m)'
    BY <2>4, <2>5 DEF Diffuse
  <2>9. CASE Sures(d)' \subseteq Sures(d)
    BY <1>p, <1>w, <2>1, <2>7, <2>9
  <2>10. ASSUME NEW g \in Fil, Creer(g), Etablie(fils[g].c), Sures(d)' \subseteq Sures(d) \cup {n}
         PROVE  Attend' \/ \A m \in Sures(d)' : Vient(m)'
    <3>1. /\ ouverte \in salles
          /\ \A k \in 1..Len(montants) : montants[k].op \notin {"quitter", "rejoindre"}
      BY <2>10 DEF Etablie
    <3>2. SansQuitter(montants', ouverte')
      <4>1. DOMAIN montants = 1..Len(montants)
        BY <1>t, LenProperties
      <4> QED BY <2>1, <3>1, <4>1 DEF SansQuitter, Quitte
    <3>3. \A m : m = n => Vient(m)'
      BY <2>1, <2>8, <3>1, <3>2 DEF Vient
    <3> QED BY <1>0, <1>a, <1>w, <2>1, <2>7, <2>10, <3>3
  <2> QED BY <1>0, <2>9, <2>10, LesSures
<1>9. ASSUME NEW f \in Fil, DiffuserMessage(f) \/ AnnoncerSuppression(f)
      PROVE  Attend' \/ \A m \in Sures(d)' : Vient(m)'
  <2>1. /\ UNCHANGED <<montants, ouverte, connecte, ecrits, surs, supprimes, salles, affiche,
                       chargements>>
        /\ \A m : Arrive(m) => Arrive(m)'
        /\ \A g \in Fil \ {f} : fils'[g] = fils[g]
        /\ AnnoncerSuppression(f) => fils[f].reste = <<"annoncerSuppression">>
    BY <1>0, <1>9, Autres, Diffusee
  <2>2. ASSUME NEW m \in Sures(d), Vient(m) PROVE Vient(m)'
    <3>1. CASE (affiche # Nul /\ m \in ToSet(affiche)) \/ Arrive(m)
      BY <2>1, <3>1 DEF Vient
    <3>2. ASSUME ouverte \in salles, SansQuitter(montants, ouverte), NEW g \in Fil, g # f,
                 fils[g].m = m, fils[g].reste = <<"diffuser">>
          PROVE  Vient(m)'
      BY <2>1, <3>2 DEF Vient, Diffuse
    <3>3. ASSUME ouverte \in salles, fils[f].m = m, fils[f].reste = <<"diffuser">>
          PROVE  Vient(m)'
      <4>1. <<"annoncerSuppression">> # <<"diffuser">>
        OBVIOUS
      <4>2. DiffuserMessage(f)
        BY <1>9, <2>1, <3>3, <4>1
      <4>3. fils[f].c = ouverte
        <5>1. ecrits[m] = [conv |-> fils[f].c, auteur |-> fils[f].par]
          BY <1>0, <3>3, Lecteurs
        <5> QED BY <1>0, <1>m, <2>1, <2>2, <5>1
      <4>4. connecte
        BY <1>0, <2>1
      <4>5. Arrive(m)'
        BY <1>0, <3>3, <4>2, <4>3, <4>4, Diffusee
      <4> QED BY <4>5 DEF Vient
    <3> QED BY <2>2, <3>1, <3>2, <3>3 DEF Vient, Diffuse
  <2> QED BY <1>p, <1>u, <1>w, <2>1, <2>2
<1>10. ASSUME NEW f \in Fil, Supprimer(f)
       PROVE  Attend' \/ \A m \in Sures(d)' : Vient(m)'
  <2>1. /\ UNCHANGED <<montants, ouverte, connecte, ecrits, surs, salles, affiche, chargements,
                       descendants>>
        /\ fils[f].reste # << >> /\ Head(fils[f].reste) = "supprimer"
    BY <1>10 DEF Supprimer, fenetre, Etape
  <2>2. /\ \A g \in Fil \ {f} : fils'[g] = fils[g]
        /\ fils[f] \in EnCours
    BY <1>0, <1>10, Autres
  <2>3. fils[f].reste # <<"diffuser">>
    <3>1. fils[f].reste = <<"supprimer", "annoncerSuppression">>
      BY <2>1, <2>2, LesRestes DEF EnCours
    <3>2. <<"supprimer", "annoncerSuppression">> # <<"diffuser">>
      OBVIOUS
    <3> QED BY <3>1, <3>2
  <2>4. \A m : Vient(m) => Vient(m)'
    BY <1>v, <2>1, <2>2, <2>3 DEF Arrive
  <2>5. \A g \in Fil : ~Creer(g)
    <3>1. ASSUME NEW g \in Fil, Creer(g) PROVE FALSE
      <4> DEFINE w == [conv |-> fils[g].c, auteur |-> fils[g].par]
      <4>1. w \in Message /\ ecrits' = Append(ecrits, w)
        <5>1. fils[g] \in EnCours
          BY <1>0, <3>1, Autres
        <5> QED BY <3>1, <5>1 DEF EnCours, Message, Creer
      <4> HIDE DEF w
      <4>2. Len(ecrits') = Len(ecrits) + 1 /\ Len(ecrits) \in Nat
        BY <1>t, <4>1, AppendProperties, LenProperties
      <4> QED BY <2>1, <4>2
    <3> QED BY <3>1
  <2>6. Sures(d)' \subseteq Sures(d)
    BY <1>0, <2>5, LesSures
  <2> QED BY <1>p, <1>w, <2>1, <2>4, <2>6
<1>11. ASSUME UNCHANGED vars PROVE Attend' \/ \A m \in Sures(d)' : Vient(m)'
  <2>1. UNCHANGED <<montants, ouverte, connecte, ecrits, surs, salles, affiche, chargements,
                    descendants, fils, supprimes>>
    BY <1>11 DEF vars, fenetre, serveur
  <2>2. \A m : Vient(m) => Vient(m)'
    BY <1>v, <2>1 DEF Arrive
  <2> QED BY <1>p, <1>u, <1>w, <2>1, <2>2
<1> QED BY <1>0, <1>1, <1>2, <1>3, <1>4, <1>5, <1>6, <1>7, <1>8, <1>9, <1>10, <1>11 DEF Next

-----------------------------------------------------------------------------
(* The theorems.                                                            *)

IInv == Types /\ SalleSuivie /\ LuSuivi /\ PagesSures /\ AfficheSuivie

(* The inductive invariant holds at the start and at every step. *)
LEMMA IInvInit == Init => IInv
<1> SUFFICES ASSUME Init PROVE IInv
  OBVIOUS
<1>1. Types
  BY TypesInit
<1>2. SalleSuivie /\ LuSuivi /\ AfficheSuivie
  BY DEF Init, SalleSuivie, LuSuivi, AfficheSuivie
<1>3. PagesSures
  BY SansDemande DEF Init, PagesSures
<1> QED BY <1>1, <1>2, <1>3 DEF IInv

(* Each part is kept by a lemma of its own. *)
LEMMA IInvStep == IInv /\ [Next]_vars => IInv'
<1> SUFFICES ASSUME IInv, [Next]_vars PROVE IInv'
  OBVIOUS
<1>1. Types /\ SalleSuivie /\ LuSuivi /\ PagesSures /\ AfficheSuivie
  BY DEF IInv
<1>2. Types'
  BY <1>1, TypesStep
<1>3. SalleSuivie'
  BY <1>1, SalleStep
<1>4. LuSuivi'
  BY <1>1, LuStep
<1>5. PagesSures'
  BY <1>1, PagesStep
<1>6. AfficheSuivie'
  BY <1>1, AfficheStep
<1> QED BY <1>2, <1>3, <1>4, <1>5, <1>6 DEF IInv

(* Every handler in progress is at a point of its own program, announces    *)
(* the message it wrote or the end of one that is gone; a history that the  *)
(* window awaits is of the conversation it shows (chat.gateway.ts and       *)
(* chat.tsx).                                                               *)
THEOREM ConversationTypeCorrect == Spec => []Types
<1>1. Init => Types
  BY TypesInit
<1>2. Types /\ [Next]_vars => Types'
  BY TypesStep
<1> QED BY <1>1, <1>2, PTL DEF Spec

(* Nothing is under way when all is quiet. *)
LEMMA Tranquille ==
    ASSUME Calme
    PROVE  /\ connecte /\ \A c : ~Annoncee(montants, c) /\ ~Signale(montants, c)
           /\ \A f \in Fil : fils[f] = Repos
           /\ \A r \in Requete : ~chargements[r].actif
           /\ \A m : ~Arrive(m) /\ ~Diffuse(m)
<1>1. DOMAIN << >> = {} /\ << >> # <<"diffuser">>
  OBVIOUS
<1>2. /\ connecte /\ \A f \in Fil : fils[f] = Repos
      /\ \A r \in Requete : ~chargements[r].actif
  BY SansDemande DEF Calme, Libre
<1>3. DOMAIN montants = {} /\ DOMAIN descendants = {}
  BY <1>1 DEF Calme
<1> QED BY <1>1, <1>2, <1>3, Repose DEF Annoncee, Signale, Arrive, Diffuse

(* When all is quiet the socket of an open window is in its room, however   *)
(* often it was cut and whatever was opened before (join() and the clean-up *)
(* of the effect in chat.tsx).                                              *)
THEOREM DansLaSalleCorrect == Spec => []DansLaSalle
<1>1. Init => Types /\ SalleSuivie
  BY IInvInit DEF IInv
<1>2. (Types /\ SalleSuivie) /\ [Next]_vars => (Types /\ SalleSuivie)'
  BY TypesStep, SalleStep
<1>3. Types /\ SalleSuivie => DansLaSalle
  <2> SUFFICES ASSUME SalleSuivie, Types, Calme, ouverte # Nul PROVE ouverte \in salles
    BY DEF DansLaSalle
  <2>1. ouverte \in salles \/ \E f \in Fil : Entrant(Repos, ouverte)
    BY Tranquille DEF SalleSuivie
  <2>2. ~Entrant(Repos, ouverte)
    BY Repose DEF Entrant
  <2> QED BY <2>1, <2>2
<1> QED BY <1>1, <1>2, <1>3, PTL DEF Spec

(* When all is quiet, what the open direct conversation shows of the other  *)
(* person is read, whatever the order in which the marks, the messages and  *)
(* the histories came (markRead() in chat.service.ts).                      *)
THEOREM VuEstLuCorrect == Spec => []VuEstLu
<1>1. IInv => VuEstLu
  <2> SUFFICES ASSUME IInv, NEW c \in Conv, Calme, nature = "dm", ouverte = c,
                      NEW m \in ToSet(affiche) \cap Messages(c)
               PROVE  m <= lu[c] \/ ecrits[m].auteur = "moi"
    BY DEF VuEstLu
  <2>1. ouverte # Nul /\ ecrits \in Seq(Message)
    BY ConversationAssumption DEF IInv, Types, TypeServeur
  <2>2. m \in 1..Len(ecrits) /\ ecrits[m].conv = ouverte
    BY DEF Messages
  <2>3. ecrits[m].auteur \in {"moi", "autre"}
    <3>1. ecrits[m] \in Message
      BY <2>1, <2>2, ElementOfSeq
    <3> QED BY <3>1 DEF Message, Personne
  <2>4. ~Marque(ouverte)
    BY Tranquille, Repose DEF Marque
  <2>5. DeLAutre(m) => m <= lu[ouverte]
    BY <2>1, <2>2, <2>4, Tranquille DEF IInv, LuSuivi, Suivi
  <2> QED BY <2>2, <2>3, <2>5 DEF DeLAutre
<1> QED BY <1>1, IInvInit, IInvStep, PTL DEF Spec

(* When all is quiet, a message written while the window was settled is on  *)
(* display, through every loss of the connection, opening, deletion and     *)
(* older page that followed, as long as less than a page was written after  *)
(* it.                                                                      *)
THEOREM SurAfficheCorrect == Spec => []SurAffiche
<1>1. IInv => SurAffiche
  <2> SUFFICES ASSUME IInv, NEW c \in Conv, Calme, ouverte = c, NEW m \in surs \cap Recentes(c)
               PROVE  m \in ToSet(affiche)
    BY DEF SurAffiche
  <2>1. ouverte # Nul /\ m \in Sures(ouverte)
    BY ConversationAssumption DEF Sures
  <2> QED BY <2>1, Tranquille DEF IInv, AfficheSuivie
<1> QED BY <1>1, IInvInit, IInvStep, PTL DEF Spec

================================================================================
