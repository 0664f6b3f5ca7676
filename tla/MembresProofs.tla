----------------------------- MODULE MembresProofs -----------------------------
(* Proofs about Membres: what holds of every office, of the owner and of     *)
(* every account, for any number of requests, people and offices.            *)
EXTENDS Droits, FiniteSetTheorems, SequenceTheorems, TLAPS

-----------------------------------------------------------------------------
(* Where a request may stand: what is left of its program.                   *)

RestesDe(op) ==
    CASE op = "creerBureau" ->
            {<<"creerBureau", "lireAdmins", "adherer", "creerOrganizer">>,
             <<"lireAdmins", "adherer", "creerOrganizer">>,
             <<"adherer", "creerOrganizer">>, <<"creerOrganizer">>}
      [] op = "promouvoir" ->
            {<<"ecrireRole", "lireBureaux", "adherer">>, <<"lireBureaux", "adherer">>,
             <<"adherer">>}
      [] op = "changerRole" -> {<<"ecrireRole">>}
      [] op = "transferer" -> {<<"ecrireProprietaire">>}
      [] op = "transfererPromu" ->
            {<<"ecrireProprietaire", "ecrireRole", "lireBureaux", "adherer">>,
             <<"ecrireRole", "lireBureaux", "adherer">>, <<"lireBureaux", "adherer">>,
             <<"adherer">>}
      [] op = "retirer" ->
            {<<"supprimerUser", "compterRestants", "supprimerCompte">>,
             <<"compterRestants", "supprimerCompte">>, <<"supprimerCompte">>}
      [] op = "retirerAilleurs" ->
            {<<"quitterAilleurs", "compterRestants", "supprimerCompte">>,
             <<"compterRestants", "supprimerCompte">>, <<"supprimerCompte">>}
      [] op = "ajouter" -> {<<"creerUser", "creerPersonnel">>, <<"creerPersonnel">>}
      [] OTHER ->
            {<<"creerCompte", "creerUser", "creerPersonnel">>,
             <<"creerUser", "creerPersonnel">>, <<"creerPersonnel">>}

(* The statements of a sequence, whatever their order.                       *)
Encore(s) == {s[k] : k \in 1..Len(s)}

(* The next statement tells what the others are, and nearly the operation.   *)
Selon(op, h, e) ==
    \/ op = "creerBureau" /\ h = "creerBureau"
       /\ e = {"creerBureau", "lireAdmins", "adherer", "creerOrganizer"}
    \/ op = "creerBureau" /\ h = "lireAdmins" /\ e = {"lireAdmins", "adherer", "creerOrganizer"}
    \/ op = "creerBureau" /\ h = "adherer" /\ e = {"adherer", "creerOrganizer"}
    \/ op = "creerBureau" /\ h = "creerOrganizer" /\ e = {"creerOrganizer"}
    \/ op = "changerRole" /\ h = "ecrireRole" /\ e = {"ecrireRole"}
    \/ op = "transferer" /\ h = "ecrireProprietaire" /\ e = {"ecrireProprietaire"}
    \/ op = "transfererPromu" /\ h = "ecrireProprietaire"
       /\ e = {"ecrireProprietaire", "ecrireRole", "lireBureaux", "adherer"}
    \/ op \in {"promouvoir", "transfererPromu"} /\ h = "ecrireRole"
       /\ e = {"ecrireRole", "lireBureaux", "adherer"}
    \/ op \in {"promouvoir", "transfererPromu"} /\ h = "lireBureaux"
       /\ e = {"lireBureaux", "adherer"}
    \/ op \in {"promouvoir", "transfererPromu"} /\ h = "adherer" /\ e = {"adherer"}
    \/ op = "retirer" /\ h = "supprimerUser"
       /\ e = {"supprimerUser", "compterRestants", "supprimerCompte"}
    \/ op = "retirerAilleurs" /\ h = "quitterAilleurs"
       /\ e = {"quitterAilleurs", "compterRestants", "supprimerCompte"}
    \/ op \in {"retirer", "retirerAilleurs"} /\ h = "compterRestants"
       /\ e = {"compterRestants", "supprimerCompte"}
    \/ op \in {"retirer", "retirerAilleurs"} /\ h = "supprimerCompte" /\ e = {"supprimerCompte"}
    \/ op = "accepter" /\ h = "creerCompte" /\ e = {"creerCompte", "creerUser", "creerPersonnel"}
    \/ op \in {"ajouter", "accepter"} /\ h = "creerUser" /\ e = {"creerUser", "creerPersonnel"}
    \/ op \in {"ajouter", "accepter"} /\ h = "creerPersonnel" /\ e = {"creerPersonnel"}

(* A request in hand: its arguments are those of its operation, and what it  *)
(* read it holds only until it inserts.                                      *)
Suites == UNION {RestesDe(op) : op \in Operation}
EnMain == [op : Operation, u : User \cup {Nul}, r : RoleGlobal \cup {Nul},
           b : Bureau \cup {Nul}, lu : SUBSET (User \X Bureau), reste : Suites]

Engagee(q) ==
    /\ q \in EnMain
    /\ q.reste \in RestesDe(q.op)
    /\ q.op = "creerBureau" => q.u = Nul /\ q.b \in Bureau
    /\ q.op # "creerBureau" => q.u \in User /\ q.b = Nul
    /\ q.op \in {"promouvoir", "transfererPromu"} => q.r = "ADMIN"
    /\ q.op \in {"changerRole", "ajouter", "accepter"} => q.r \in RoleGlobal \ {"ADMIN"}
    /\ q.lu # {} => Head(q.reste) = "adherer"

(* The rows refer to rows that exist, and every request is where its program *)
(* may be.                                                                   *)
TypeLignes ==
    /\ users \subseteq comptes /\ ailleurs \subseteq comptes /\ comptes \subseteq User
    /\ role \in [User -> RoleGlobal] /\ proprietaire \in User
    /\ bureaux \subseteq Bureau
    /\ adhesions \subseteq users \X bureaux /\ invitations \subseteq users \X bureaux
    /\ invites \subseteq User /\ organizers \subseteq users \cup bureaux
    /\ manques \subseteq (User \cup {Nul}) \X Bureau
    /\ orphelins \subseteq User /\ croise \in BOOLEAN

TypeRequetes ==
    /\ requetes \in [Requete -> EnMain \cup {Libre}]
    /\ \A x \in Requete : Occupee(x) => Engagee(requetes[x])

Types == TypeLignes /\ TypeRequetes

-----------------------------------------------------------------------------
(* The owner.  While no transfer has met another request: ...                *)

(* the owner is a member;                                                    *)
ProprietaireMembre == proprietaire \in users

(* a transfer is alone among the requests on roles and members;              *)
TransfertSeul ==
    \A x, y \in Requete :
        Occupee(x) /\ Occupee(y) /\ x # y /\ requetes[x].op \in Transferts
            => ~Concerne(requetes[y].op)

(* no demotion or removal in hand is of the owner;                           *)
AutresCibles ==
    \A x \in Requete : Occupee(x) /\ requetes[x].op \in {"changerRole", "retirer"}
                          => requetes[x].u # proprietaire

(* who is about to become owner is a member, and an admin if the transfer    *)
(* does not promote;                                                         *)
HeritierMembre ==
    \A x \in Requete : Occupee(x) /\ Reste(x, "ecrireProprietaire") =>
        /\ requetes[x].u \in users
        /\ requetes[x].op = "transferer" => role[requetes[x].u] = "ADMIN"

(* and the owner is an admin, or the transfer is about to write it.          *)
ProprietaireAdmin ==
    \/ role[proprietaire] = "ADMIN"
    \/ \E x \in Requete : /\ Occupee(x) /\ requetes[x].op = "transfererPromu"
                          /\ requetes[x].u = proprietaire /\ Reste(x, "ecrireRole")

ProprietaireTenu ==
    ~croise => /\ ProprietaireMembre /\ TransfertSeul /\ AutresCibles
               /\ HeritierMembre /\ ProprietaireAdmin

(* An account without organisation has a request that still deletes it, past *)
(* the removal that left it so, or that is about to give it its row.         *)
Rattache ==
    \A c \in comptes :
        \/ c \in users \cup ailleurs \cup orphelins
        \/ \E x \in Requete : /\ Occupee(x) /\ requetes[x].u = c
                              /\ Head(requetes[x].reste) \in
                                    {"compterRestants", "supprimerCompte", "creerUser"}

-----------------------------------------------------------------------------
(* The programs and their statements.                                        *)
LEMMA Operations ==
    Operation = {"creerBureau", "promouvoir", "changerRole", "transferer", "transfererPromu",
                 "retirer", "retirerAilleurs", "ajouter", "accepter"}
BY DEF Operation, Programme

(* A statement before two or three others.                                   *)
LEMMA DevantDeux ==
    ASSUME NEW S, NEW i \in S, NEW j \in S, NEW k \in S
    PROVE  <<i>> \o <<j, k>> = <<i, j, k>>
<1> DEFINE c == <<i>> \o <<j, k>>
<1>1. <<i>> \in Seq(S) /\ Len(<<i>>) = 1 /\ <<i>>[1] = i
  OBVIOUS
<1>2. <<j, k>> \in Seq(S) /\ Len(<<j, k>>) = 2 /\ <<j, k>>[1] = j /\ <<j, k>>[2] = k
  OBVIOUS
<1>3. <<i, j, k>> \in Seq(S) /\ Len(<<i, j, k>>) = 3
  OBVIOUS
<1>4. c \in Seq(S) /\ Len(c) = 3
  BY <1>1, <1>2, ConcatProperties
<1>5. \A n \in 1..3 : c[n] = IF n <= 1 THEN <<i>>[n] ELSE <<j, k>>[n - 1]
  BY <1>1, <1>2, ConcatProperties
<1>6. c[1] = <<i>>[1] /\ c[2] = <<j, k>>[1] /\ c[3] = <<j, k>>[2]
  <2> HIDE DEF c
  <2> QED BY <1>5
<1>7. <<i, j, k>>[1] = i /\ <<i, j, k>>[2] = j /\ <<i, j, k>>[3] = k
  OBVIOUS
<1>8. \A n \in 1..3 : c[n] = <<i, j, k>>[n]
  <2>1. \A n \in 1..3 : n = 1 \/ n = 2 \/ n = 3
    OBVIOUS
  <2> QED BY <1>1, <1>2, <1>6, <1>7, <2>1, Zenon
<1> QED BY <1>3, <1>4, <1>8, SeqEqual

(* The same before three.                                                    *)
LEMMA DevantTrois ==
    ASSUME NEW S, NEW i \in S, NEW j \in S, NEW k \in S, NEW l \in S
    PROVE  <<i>> \o <<j, k, l>> = <<i, j, k, l>>
<1> DEFINE c == <<i>> \o <<j, k, l>>
<1>1. <<i>> \in Seq(S) /\ Len(<<i>>) = 1 /\ <<i>>[1] = i
  OBVIOUS
<1>2. /\ <<j, k, l>> \in Seq(S) /\ Len(<<j, k, l>>) = 3
      /\ <<j, k, l>>[1] = j /\ <<j, k, l>>[2] = k /\ <<j, k, l>>[3] = l
  OBVIOUS
<1>3. <<i, j, k, l>> \in Seq(S) /\ Len(<<i, j, k, l>>) = 4
  OBVIOUS
<1>4. c \in Seq(S) /\ Len(c) = 4
  BY <1>1, <1>2, ConcatProperties
<1>5. \A n \in 1..4 : c[n] = IF n <= 1 THEN <<i>>[n] ELSE <<j, k, l>>[n - 1]
  BY <1>1, <1>2, ConcatProperties
<1>6. c[1] = <<i>>[1] /\ c[2] = <<j, k, l>>[1] /\ c[3] = <<j, k, l>>[2] /\ c[4] = <<j, k, l>>[3]
  <2> HIDE DEF c
  <2> QED BY <1>5
<1>7. /\ <<i, j, k, l>>[1] = i /\ <<i, j, k, l>>[2] = j
      /\ <<i, j, k, l>>[3] = k /\ <<i, j, k, l>>[4] = l
  OBVIOUS
<1>8. \A n \in 1..4 : c[n] = <<i, j, k, l>>[n]
  <2>1. \A n \in 1..4 : n = 1 \/ n = 2 \/ n = 3 \/ n = 4
    OBVIOUS
  <2> QED BY <1>1, <1>2, <1>6, <1>7, <2>1, Zenon
<1> QED BY <1>3, <1>4, <1>8, SeqEqual

(* The programs, one by one.                                                 *)
LEMMA Programmes ==
    /\ Programme["creerBureau"] = <<"creerBureau", "lireAdmins", "adherer", "creerOrganizer">>
    /\ Programme["promouvoir"] = <<"ecrireRole", "lireBureaux", "adherer">>
    /\ Programme["changerRole"] = <<"ecrireRole">>
    /\ Programme["transferer"] = <<"ecrireProprietaire">>
    /\ Programme["transfererPromu"] =
          <<"ecrireProprietaire", "ecrireRole", "lireBureaux", "adherer">>
    /\ Programme["retirer"] = <<"supprimerUser", "compterRestants", "supprimerCompte">>
    /\ Programme["retirerAilleurs"] =
          <<"quitterAilleurs", "compterRestants", "supprimerCompte">>
    /\ Programme["ajouter"] = <<"creerUser", "creerPersonnel">>
    /\ Programme["accepter"] = <<"creerCompte", "creerUser", "creerPersonnel">>
<1>1. <<"ecrireProprietaire">> \o <<"ecrireRole", "lireBureaux", "adherer">>
        = <<"ecrireProprietaire", "ecrireRole", "lireBureaux", "adherer">>
  <2> DEFINE S == {"ecrireProprietaire", "ecrireRole", "lireBureaux", "adherer"}
  <2>1. /\ "ecrireProprietaire" \in S /\ "ecrireRole" \in S
        /\ "lireBureaux" \in S /\ "adherer" \in S
    OBVIOUS
  <2> HIDE DEF S
  <2> QED BY <2>1, DevantTrois, Zenon
<1>2. <<"creerCompte">> \o <<"creerUser", "creerPersonnel">>
        = <<"creerCompte", "creerUser", "creerPersonnel">>
  <2> DEFINE S == {"creerCompte", "creerUser", "creerPersonnel"}
  <2>1. "creerCompte" \in S /\ "creerUser" \in S /\ "creerPersonnel" \in S
    OBVIOUS
  <2> HIDE DEF S
  <2> QED BY <2>1, DevantDeux, Zenon
<1> QED BY <1>1, <1>2 DEF Programme, Creation, Promotion, Retrait, Rattachement

(* Sequences of one to four statements.                                      *)
Un(s, i) == Len(s) = 1 /\ Head(s) = i /\ Encore(s) = {i}
Deux(s, i, j) ==
    Len(s) = 2 /\ Head(s) = i /\ Tail(s) = <<j>> /\ Encore(s) = {i, j}
Trois(s, i, j, k) ==
    Len(s) = 3 /\ Head(s) = i /\ Tail(s) = <<j, k>> /\ Encore(s) = {i, j, k}
Quatre(s, i, j, k, l) ==
    Len(s) = 4 /\ Head(s) = i /\ Tail(s) = <<j, k, l>> /\ Encore(s) = {i, j, k, l}

(* What these say holds of the sequences written out.                        *)
LEMMA SontUn ==
    ASSUME NEW i PROVE Un(<<i>>, i)
<1>1. Len(<<i>>) = 1 /\ Head(<<i>>) = i /\ 1..1 = {1} /\ <<i>>[1] = i
  OBVIOUS
<1>2. Encore(<<i>>) = {i}
  BY <1>1 DEF Encore
<1> QED BY <1>1, <1>2, Zenon DEF Un

(* Of two.                                                                   *)
LEMMA SontDeux ==
    ASSUME NEW i, NEW j PROVE Deux(<<i, j>>, i, j)
<1>1. Len(<<i, j>>) = 2 /\ Head(<<i, j>>) = i /\ Tail(<<i, j>>) = <<j>>
  OBVIOUS
<1>2. Encore(<<i, j>>) = {<<i, j>>[n] : n \in {1, 2}}
  <2>1. 1..2 = {1, 2}
    OBVIOUS
  <2> QED BY <1>1, <2>1 DEF Encore
<1>3. \A e : e \in Encore(<<i, j>>) <=> e \in {i, j}
  BY <1>2, SMT
<1>4. Encore(<<i, j>>) = {i, j}
  BY <1>3, SMT
<1> QED BY <1>1, <1>4, Zenon DEF Deux

(* Of three.                                                                 *)
LEMMA SontTrois ==
    ASSUME NEW i, NEW j, NEW k PROVE Trois(<<i, j, k>>, i, j, k)
<1>1. Len(<<i, j, k>>) = 3 /\ Head(<<i, j, k>>) = i /\ Tail(<<i, j, k>>) = <<j, k>>
  OBVIOUS
<1>2. Encore(<<i, j, k>>) = {<<i, j, k>>[n] : n \in {1, 2, 3}}
  <2>1. 1..3 = {1, 2, 3}
    OBVIOUS
  <2> QED BY <1>1, <2>1 DEF Encore
<1>3. \A e : e \in Encore(<<i, j, k>>) <=> e \in {i, j, k}
  BY <1>2, SMT
<1>4. Encore(<<i, j, k>>) = {i, j, k}
  BY <1>3, SMT
<1> QED BY <1>1, <1>4, Zenon DEF Trois

(* Of four.                                                                  *)
LEMMA SontQuatre ==
    ASSUME NEW i, NEW j, NEW k, NEW l PROVE Quatre(<<i, j, k, l>>, i, j, k, l)
<1>1. Len(<<i, j, k, l>>) = 4 /\ Head(<<i, j, k, l>>) = i /\ Tail(<<i, j, k, l>>) = <<j, k, l>>
  OBVIOUS
<1>2. Encore(<<i, j, k, l>>) = {<<i, j, k, l>>[n] : n \in {1, 2, 3, 4}}
  <2>1. 1..4 = {1, 2, 3, 4}
    OBVIOUS
  <2> QED BY <1>1, <2>1 DEF Encore
<1>3. \A e : e \in Encore(<<i, j, k, l>>) <=> e \in {i, j, k, l}
  BY <1>2, SMT
<1>4. Encore(<<i, j, k, l>>) = {i, j, k, l}
  BY <1>3, SMT
<1> QED BY <1>1, <1>4, Zenon DEF Quatre

(* A request begins with its program, or without the account that exists.    *)
LEMMA Debuts ==
    /\ \A op \in Operation : Programme[op] \in RestesDe(op)
    /\ Rattachement \in RestesDe("accepter")
<1>1. ASSUME NEW op \in Operation PROVE Programme[op] \in RestesDe(op)
  BY Operations, Programmes, Zenon DEF RestesDe
<1>2. Rattachement \in RestesDe("accepter")
  BY DEF RestesDe, Rattachement
<1> QED BY <1>1, <1>2

(* What is left is never nothing; it is told by its first statement, and     *)
(* without it the rest is left.                                              *)
LEMMA Restes ==
    ASSUME NEW op \in Operation, NEW s \in RestesDe(op)
    PROVE  /\ Head(s) \in Encore(s)
           /\ Selon(op, Head(s), Encore(s))
           /\ Len(s) = 1 => Encore(s) = {Head(s)}
           /\ Len(s) # 1 => /\ Tail(s) \in RestesDe(op)
                            /\ Encore(Tail(s)) = Encore(s) \ {Head(s)}
<1> DEFINE Bien == /\ Head(s) \in Encore(s)
                   /\ Selon(op, Head(s), Encore(s))
                   /\ Len(s) = 1 => Encore(s) = {Head(s)}
                   /\ Len(s) # 1 => /\ Tail(s) \in RestesDe(op)
                                    /\ Encore(Tail(s)) = Encore(s) \ {Head(s)}
<1>1. CASE op = "creerBureau"
  <2>1. RestesDe(op) = {<<"creerBureau", "lireAdmins", "adherer", "creerOrganizer">>,
                         <<"lireAdmins", "adherer", "creerOrganizer">>,
                         <<"adherer", "creerOrganizer">>, <<"creerOrganizer">>}
    BY <1>1 DEF RestesDe
  <2>2. CASE s = <<"creerBureau", "lireAdmins", "adherer", "creerOrganizer">>
    <3>1. Quatre(<<"creerBureau", "lireAdmins", "adherer", "creerOrganizer">>,
                 "creerBureau", "lireAdmins", "adherer", "creerOrganizer")
      BY SontQuatre
    <3>2. Trois(<<"lireAdmins", "adherer", "creerOrganizer">>,
                 "lireAdmins", "adherer", "creerOrganizer")
      BY SontTrois
    <3>3. /\ Len(s) = 4 /\ Head(s) = "creerBureau"
          /\ Encore(s) = {"creerBureau", "lireAdmins", "adherer", "creerOrganizer"}
          /\ Tail(s) = <<"lireAdmins", "adherer", "creerOrganizer">>
          /\ Encore(Tail(s)) = {"lireAdmins", "adherer", "creerOrganizer"}
      BY <2>2, <3>1, <3>2, Zenon DEF Trois, Quatre
    <3>4. Selon(op, Head(s), Encore(s))
      BY <1>1, <3>3 DEF Selon
    <3>5. Tail(s) \in RestesDe(op)
      BY <2>1, <3>3, Zenon
    <3> QED BY <3>3, <3>4, <3>5
  <2>3. CASE s = <<"lireAdmins", "adherer", "creerOrganizer">>
    <3>1. Trois(<<"lireAdmins", "adherer", "creerOrganizer">>,
                 "lireAdmins", "adherer", "creerOrganizer")
      BY SontTrois
    <3>2. Deux(<<"adherer", "creerOrganizer">>, "adherer", "creerOrganizer")
      BY SontDeux
    <3>3. /\ Len(s) = 3 /\ Head(s) = "lireAdmins"
          /\ Encore(s) = {"lireAdmins", "adherer", "creerOrganizer"}
          /\ Tail(s) = <<"adherer", "creerOrganizer">>
          /\ Encore(Tail(s)) = {"adherer", "creerOrganizer"}
      BY <2>3, <3>1, <3>2, Zenon DEF Deux, Trois
    <3>4. Selon(op, Head(s), Encore(s))
      BY <1>1, <3>3 DEF Selon
    <3>5. Tail(s) \in RestesDe(op)
      BY <2>1, <3>3, Zenon
    <3> QED BY <3>3, <3>4, <3>5
  <2>4. CASE s = <<"adherer", "creerOrganizer">>
    <3>1. Deux(<<"adherer", "creerOrganizer">>, "adherer", "creerOrganizer")
      BY SontDeux
    <3>2. Un(<<"creerOrganizer">>, "creerOrganizer")
      BY SontUn
    <3>3. /\ Len(s) = 2 /\ Head(s) = "adherer"
          /\ Encore(s) = {"adherer", "creerOrganizer"}
          /\ Tail(s) = <<"creerOrganizer">>
          /\ Encore(Tail(s)) = {"creerOrganizer"}
      BY <2>4, <3>1, <3>2, Zenon DEF Un, Deux
    <3>4. Selon(op, Head(s), Encore(s))
      BY <1>1, <3>3 DEF Selon
    <3>5. Tail(s) \in RestesDe(op)
      BY <2>1, <3>3, Zenon
    <3> QED BY <3>3, <3>4, <3>5
  <2>5. CASE s = <<"creerOrganizer">>
    <3>1. Un(<<"creerOrganizer">>, "creerOrganizer")
      BY SontUn
    <3>3. /\ Len(s) = 1 /\ Head(s) = "creerOrganizer"
          /\ Encore(s) = {"creerOrganizer"}
      BY <2>5, <3>1, Zenon DEF Un
    <3>4. Selon(op, Head(s), Encore(s))
      BY <1>1, <3>3 DEF Selon
    <3> QED BY <3>3, <3>4
  <2> QED BY <2>1, <2>2, <2>3, <2>4, <2>5
<1>2. CASE op = "promouvoir"
  <2>1. RestesDe(op) = {<<"ecrireRole", "lireBureaux", "adherer">>,
                         <<"lireBureaux", "adherer">>, <<"adherer">>}
    BY <1>2 DEF RestesDe
  <2>2. CASE s = <<"ecrireRole", "lireBureaux", "adherer">>
    <3>1. Trois(<<"ecrireRole", "lireBureaux", "adherer">>,
                 "ecrireRole", "lireBureaux", "adherer")
      BY SontTrois
    <3>2. Deux(<<"lireBureaux", "adherer">>, "lireBureaux", "adherer")
      BY SontDeux
    <3>3. /\ Len(s) = 3 /\ Head(s) = "ecrireRole"
          /\ Encore(s) = {"ecrireRole", "lireBureaux", "adherer"}
          /\ Tail(s) = <<"lireBureaux", "adherer">>
          /\ Encore(Tail(s)) = {"lireBureaux", "adherer"}
      BY <2>2, <3>1, <3>2, Zenon DEF Deux, Trois
    <3>4. Selon(op, Head(s), Encore(s))
      BY <1>2, <3>3 DEF Selon
    <3>5. Tail(s) \in RestesDe(op)
      BY <2>1, <3>3, Zenon
    <3> QED BY <3>3, <3>4, <3>5
  <2>3. CASE s = <<"lireBureaux", "adherer">>
    <3>1. Deux(<<"lireBureaux", "adherer">>, "lireBureaux", "adherer")
      BY SontDeux
    <3>2. Un(<<"adherer">>, "adherer")
      BY SontUn
    <3>3. /\ Len(s) = 2 /\ Head(s) = "lireBureaux"
          /\ Encore(s) = {"lireBureaux", "adherer"}
          /\ Tail(s) = <<"adherer">>
          /\ Encore(Tail(s)) = {"adherer"}
      BY <2>3, <3>1, <3>2, Zenon DEF Un, Deux
    <3>4. Selon(op, Head(s), Encore(s))
      BY <1>2, <3>3 DEF Selon
    <3>5. Tail(s) \in RestesDe(op)
      BY <2>1, <3>3, Zenon
    <3> QED BY <3>3, <3>4, <3>5
  <2>4. CASE s = <<"adherer">>
    <3>1. Un(<<"adherer">>, "adherer")
      BY SontUn
    <3>3. /\ Len(s) = 1 /\ Head(s) = "adherer"
          /\ Encore(s) = {"adherer"}
      BY <2>4, <3>1, Zenon DEF Un
    <3>4. Selon(op, Head(s), Encore(s))
      BY <1>2, <3>3 DEF Selon
    <3> QED BY <3>3, <3>4
  <2> QED BY <2>1, <2>2, <2>3, <2>4
<1>3. CASE op = "changerRole"
  <2>1. RestesDe(op) = {<<"ecrireRole">>}
    BY <1>3 DEF RestesDe
  <2>2. CASE s = <<"ecrireRole">>
    <3>1. Un(<<"ecrireRole">>, "ecrireRole")
      BY SontUn
    <3>3. /\ Len(s) = 1 /\ Head(s) = "ecrireRole"
          /\ Encore(s) = {"ecrireRole"}
      BY <2>2, <3>1, Zenon DEF Un
    <3>4. Selon(op, Head(s), Encore(s))
      BY <1>3, <3>3 DEF Selon
    <3> QED BY <3>3, <3>4
  <2> QED BY <2>1, <2>2
<1>4. CASE op = "transferer"
  <2>1. RestesDe(op) = {<<"ecrireProprietaire">>}
    BY <1>4 DEF RestesDe
  <2>2. CASE s = <<"ecrireProprietaire">>
    <3>1. Un(<<"ecrireProprietaire">>, "ecrireProprietaire")
      BY SontUn
    <3>3. /\ Len(s) = 1 /\ Head(s) = "ecrireProprietaire"
          /\ Encore(s) = {"ecrireProprietaire"}
      BY <2>2, <3>1, Zenon DEF Un
    <3>4. Selon(op, Head(s), Encore(s))
      BY <1>4, <3>3 DEF Selon
    <3> QED BY <3>3, <3>4
  <2> QED BY <2>1, <2>2
<1>5. CASE op = "transfererPromu"
  <2>1. RestesDe(op) = {<<"ecrireProprietaire", "ecrireRole", "lireBureaux", "adherer">>,
                         <<"ecrireRole", "lireBureaux", "adherer">>,
                         <<"lireBureaux", "adherer">>, <<"adherer">>}
    BY <1>5 DEF RestesDe
  <2>2. CASE s = <<"ecrireProprietaire", "ecrireRole", "lireBureaux", "adherer">>
    <3>1. Quatre(<<"ecrireProprietaire", "ecrireRole", "lireBureaux", "adherer">>,
                 "ecrireProprietaire", "ecrireRole", "lireBureaux", "adherer")
      BY SontQuatre
    <3>2. Trois(<<"ecrireRole", "lireBureaux", "adherer">>,
                 "ecrireRole", "lireBureaux", "adherer")
      BY SontTrois
    <3>3. /\ Len(s) = 4 /\ Head(s) = "ecrireProprietaire"
          /\ Encore(s) = {"ecrireProprietaire", "ecrireRole", "lireBureaux", "adherer"}
          /\ Tail(s) = <<"ecrireRole", "lireBureaux", "adherer">>
          /\ Encore(Tail(s)) = {"ecrireRole", "lireBureaux", "adherer"}
      BY <2>2, <3>1, <3>2, Zenon DEF Trois, Quatre
    <3>4. Selon(op, Head(s), Encore(s))
      BY <1>5, <3>3 DEF Selon
    <3>5. Tail(s) \in RestesDe(op)
      BY <2>1, <3>3, Zenon
    <3> QED BY <3>3, <3>4, <3>5
  <2>3. CASE s = <<"ecrireRole", "lireBureaux", "adherer">>
    <3>1. Trois(<<"ecrireRole", "lireBureaux", "adherer">>,
                 "ecrireRole", "lireBureaux", "adherer")
      BY SontTrois
    <3>2. Deux(<<"lireBureaux", "adherer">>, "lireBureaux", "adherer")
      BY SontDeux
    <3>3. /\ Len(s) = 3 /\ Head(s) = "ecrireRole"
          /\ Encore(s) = {"ecrireRole", "lireBureaux", "adherer"}
          /\ Tail(s) = <<"lireBureaux", "adherer">>
          /\ Encore(Tail(s)) = {"lireBureaux", "adherer"}
      BY <2>3, <3>1, <3>2, Zenon DEF Deux, Trois
    <3>4. Selon(op, Head(s), Encore(s))
      BY <1>5, <3>3 DEF Selon
    <3>5. Tail(s) \in RestesDe(op)
      BY <2>1, <3>3, Zenon
    <3> QED BY <3>3, <3>4, <3>5
  <2>4. CASE s = <<"lireBureaux", "adherer">>
    <3>1. Deux(<<"lireBureaux", "adherer">>, "lireBureaux", "adherer")
      BY SontDeux
    <3>2. Un(<<"adherer">>, "adherer")
      BY SontUn
    <3>3. /\ Len(s) = 2 /\ Head(s) = "lireBureaux"
          /\ Encore(s) = {"lireBureaux", "adherer"}
          /\ Tail(s) = <<"adherer">>
          /\ Encore(Tail(s)) = {"adherer"}
      BY <2>4, <3>1, <3>2, Zenon DEF Un, Deux
    <3>4. Selon(op, Head(s), Encore(s))
      BY <1>5, <3>3 DEF Selon
    <3>5. Tail(s) \in RestesDe(op)
      BY <2>1, <3>3, Zenon
    <3> QED BY <3>3, <3>4, <3>5
  <2>5. CASE s = <<"adherer">>
    <3>1. Un(<<"adherer">>, "adherer")
      BY SontUn
    <3>3. /\ Len(s) = 1 /\ Head(s) = "adherer"
          /\ Encore(s) = {"adherer"}
      BY <2>5, <3>1, Zenon DEF Un
    <3>4. Selon(op, Head(s), Encore(s))
      BY <1>5, <3>3 DEF Selon
    <3> QED BY <3>3, <3>4
  <2> QED BY <2>1, <2>2, <2>3, <2>4, <2>5
<1>6. CASE op = "retirer"
  <2>1. RestesDe(op) = {<<"supprimerUser", "compterRestants", "supprimerCompte">>,
                         <<"compterRestants", "supprimerCompte">>, <<"supprimerCompte">>}
    BY <1>6 DEF RestesDe
  <2>2. CASE s = <<"supprimerUser", "compterRestants", "supprimerCompte">>
    <3>1. Trois(<<"supprimerUser", "compterRestants", "supprimerCompte">>,
                 "supprimerUser", "compterRestants", "supprimerCompte")
      BY SontTrois
    <3>2. Deux(<<"compterRestants", "supprimerCompte">>,
                 "compterRestants", "supprimerCompte")
      BY SontDeux
    <3>3. /\ Len(s) = 3 /\ Head(s) = "supprimerUser"
          /\ Encore(s) = {"supprimerUser", "compterRestants", "supprimerCompte"}
          /\ Tail(s) = <<"compterRestants", "supprimerCompte">>
          /\ Encore(Tail(s)) = {"compterRestants", "supprimerCompte"}
      BY <2>2, <3>1, <3>2, Zenon DEF Deux, Trois
    <3>4. Selon(op, Head(s), Encore(s))
      BY <1>6, <3>3 DEF Selon
    <3>5. Tail(s) \in RestesDe(op)
      BY <2>1, <3>3, Zenon
    <3> QED BY <3>3, <3>4, <3>5
  <2>3. CASE s = <<"compterRestants", "supprimerCompte">>
    <3>1. Deux(<<"compterRestants", "supprimerCompte">>,
                 "compterRestants", "supprimerCompte")
      BY SontDeux
    <3>2. Un(<<"supprimerCompte">>, "supprimerCompte")
      BY SontUn
    <3>3. /\ Len(s) = 2 /\ Head(s) = "compterRestants"
          /\ Encore(s) = {"compterRestants", "supprimerCompte"}
          /\ Tail(s) = <<"supprimerCompte">>
          /\ Encore(Tail(s)) = {"supprimerCompte"}
      BY <2>3, <3>1, <3>2, Zenon DEF Un, Deux
    <3>4. Selon(op, Head(s), Encore(s))
      BY <1>6, <3>3 DEF Selon
    <3>5. Tail(s) \in RestesDe(op)
      BY <2>1, <3>3, Zenon
    <3> QED BY <3>3, <3>4, <3>5
  <2>4. CASE s = <<"supprimerCompte">>
    <3>1. Un(<<"supprimerCompte">>, "supprimerCompte")
      BY SontUn
    <3>3. /\ Len(s) = 1 /\ Head(s) = "supprimerCompte"
          /\ Encore(s) = {"supprimerCompte"}
      BY <2>4, <3>1, Zenon DEF Un
    <3>4. Selon(op, Head(s), Encore(s))
      BY <1>6, <3>3 DEF Selon
    <3> QED BY <3>3, <3>4
  <2> QED BY <2>1, <2>2, <2>3, <2>4
<1>7. CASE op = "retirerAilleurs"
  <2>1. RestesDe(op) = {<<"quitterAilleurs", "compterRestants", "supprimerCompte">>,
                         <<"compterRestants", "supprimerCompte">>, <<"supprimerCompte">>}
    BY <1>7 DEF RestesDe
  <2>2. CASE s = <<"quitterAilleurs", "compterRestants", "supprimerCompte">>
    <3>1. Trois(<<"quitterAilleurs", "compterRestants", "supprimerCompte">>,
                 "quitterAilleurs", "compterRestants", "supprimerCompte")
      BY SontTrois
    <3>2. Deux(<<"compterRestants", "supprimerCompte">>,
                 "compterRestants", "supprimerCompte")
      BY SontDeux
    <3>3. /\ Len(s) = 3 /\ Head(s) = "quitterAilleurs"
          /\ Encore(s) = {"quitterAilleurs", "compterRestants", "supprimerCompte"}
          /\ Tail(s) = <<"compterRestants", "supprimerCompte">>
          /\ Encore(Tail(s)) = {"compterRestants", "supprimerCompte"}
      BY <2>2, <3>1, <3>2, Zenon DEF Deux, Trois
    <3>4. Selon(op, Head(s), Encore(s))
      BY <1>7, <3>3 DEF Selon
    <3>5. Tail(s) \in RestesDe(op)
      BY <2>1, <3>3, Zenon
    <3> QED BY <3>3, <3>4, <3>5
  <2>3. CASE s = <<"compterRestants", "supprimerCompte">>
    <3>1. Deux(<<"compterRestants", "supprimerCompte">>,
                 "compterRestants", "supprimerCompte")
      BY SontDeux
    <3>2. Un(<<"supprimerCompte">>, "supprimerCompte")
      BY SontUn
    <3>3. /\ Len(s) = 2 /\ Head(s) = "compterRestants"
          /\ Encore(s) = {"compterRestants", "supprimerCompte"}
          /\ Tail(s) = <<"supprimerCompte">>
          /\ Encore(Tail(s)) = {"supprimerCompte"}
      BY <2>3, <3>1, <3>2, Zenon DEF Un, Deux
    <3>4. Selon(op, Head(s), Encore(s))
      BY <1>7, <3>3 DEF Selon
    <3>5. Tail(s) \in RestesDe(op)
      BY <2>1, <3>3, Zenon
    <3> QED BY <3>3, <3>4, <3>5
  <2>4. CASE s = <<"supprimerCompte">>
    <3>1. Un(<<"supprimerCompte">>, "supprimerCompte")
      BY SontUn
    <3>3. /\ Len(s) = 1 /\ Head(s) = "supprimerCompte"
          /\ Encore(s) = {"supprimerCompte"}
      BY <2>4, <3>1, Zenon DEF Un
    <3>4. Selon(op, Head(s), Encore(s))
      BY <1>7, <3>3 DEF Selon
    <3> QED BY <3>3, <3>4
  <2> QED BY <2>1, <2>2, <2>3, <2>4
<1>8. CASE op = "ajouter"
  <2>1. RestesDe(op) = {<<"creerUser", "creerPersonnel">>, <<"creerPersonnel">>}
    BY <1>8 DEF RestesDe
  <2>2. CASE s = <<"creerUser", "creerPersonnel">>
    <3>1. Deux(<<"creerUser", "creerPersonnel">>, "creerUser", "creerPersonnel")
      BY SontDeux
    <3>2. Un(<<"creerPersonnel">>, "creerPersonnel")
      BY SontUn
    <3>3. /\ Len(s) = 2 /\ Head(s) = "creerUser"
          /\ Encore(s) = {"creerUser", "creerPersonnel"}
          /\ Tail(s) = <<"creerPersonnel">>
          /\ Encore(Tail(s)) = {"creerPersonnel"}
      BY <2>2, <3>1, <3>2, Zenon DEF Un, Deux
    <3>4. Selon(op, Head(s), Encore(s))
      BY <1>8, <3>3 DEF Selon
    <3>5. Tail(s) \in RestesDe(op)
      BY <2>1, <3>3, Zenon
    <3> QED BY <3>3, <3>4, <3>5
  <2>3. CASE s = <<"creerPersonnel">>
    <3>1. Un(<<"creerPersonnel">>, "creerPersonnel")
      BY SontUn
    <3>3. /\ Len(s) = 1 /\ Head(s) = "creerPersonnel"
          /\ Encore(s) = {"creerPersonnel"}
      BY <2>3, <3>1, Zenon DEF Un
    <3>4. Selon(op, Head(s), Encore(s))
      BY <1>8, <3>3 DEF Selon
    <3> QED BY <3>3, <3>4
  <2> QED BY <2>1, <2>2, <2>3
<1>9. CASE op = "accepter"
  <2>1. RestesDe(op) = {<<"creerCompte", "creerUser", "creerPersonnel">>,
                         <<"creerUser", "creerPersonnel">>, <<"creerPersonnel">>}
    BY <1>9 DEF RestesDe
  <2>2. CASE s = <<"creerCompte", "creerUser", "creerPersonnel">>
    <3>1. Trois(<<"creerCompte", "creerUser", "creerPersonnel">>,
                 "creerCompte", "creerUser", "creerPersonnel")
      BY SontTrois
    <3>2. Deux(<<"creerUser", "creerPersonnel">>, "creerUser", "creerPersonnel")
      BY SontDeux
    <3>3. /\ Len(s) = 3 /\ Head(s) = "creerCompte"
          /\ Encore(s) = {"creerCompte", "creerUser", "creerPersonnel"}
          /\ Tail(s) = <<"creerUser", "creerPersonnel">>
          /\ Encore(Tail(s)) = {"creerUser", "creerPersonnel"}
      BY <2>2, <3>1, <3>2, Zenon DEF Deux, Trois
    <3>4. Selon(op, Head(s), Encore(s))
      BY <1>9, <3>3 DEF Selon
    <3>5. Tail(s) \in RestesDe(op)
      BY <2>1, <3>3, Zenon
    <3> QED BY <3>3, <3>4, <3>5
  <2>3. CASE s = <<"creerUser", "creerPersonnel">>
    <3>1. Deux(<<"creerUser", "creerPersonnel">>, "creerUser", "creerPersonnel")
      BY SontDeux
    <3>2. Un(<<"creerPersonnel">>, "creerPersonnel")
      BY SontUn
    <3>3. /\ Len(s) = 2 /\ Head(s) = "creerUser"
          /\ Encore(s) = {"creerUser", "creerPersonnel"}
          /\ Tail(s) = <<"creerPersonnel">>
          /\ Encore(Tail(s)) = {"creerPersonnel"}
      BY <2>3, <3>1, <3>2, Zenon DEF Un, Deux
    <3>4. Selon(op, Head(s), Encore(s))
      BY <1>9, <3>3 DEF Selon
    <3>5. Tail(s) \in RestesDe(op)
      BY <2>1, <3>3, Zenon
    <3> QED BY <3>3, <3>4, <3>5
  <2>4. CASE s = <<"creerPersonnel">>
    <3>1. Un(<<"creerPersonnel">>, "creerPersonnel")
      BY SontUn
    <3>3. /\ Len(s) = 1 /\ Head(s) = "creerPersonnel"
          /\ Encore(s) = {"creerPersonnel"}
      BY <2>4, <3>1, Zenon DEF Un
    <3>4. Selon(op, Head(s), Encore(s))
      BY <1>9, <3>3 DEF Selon
    <3> QED BY <3>3, <3>4
  <2> QED BY <2>1, <2>2, <2>3, <2>4
<1> QED BY <1>1, <1>2, <1>3, <1>4, <1>5, <1>6, <1>7, <1>8, <1>9, Operations

-----------------------------------------------------------------------------
(* What a statement does to its request: it ends or goes on with the rest.   *)

Finit(x) == requetes'[x] = Libre
Avance(x) ==
    /\ Engagee(requetes'[x])
    /\ requetes'[x].op = requetes[x].op /\ requetes'[x].u = requetes[x].u
    /\ requetes'[x].r = requetes[x].r /\ requetes'[x].b = requetes[x].b
    /\ Encore(requetes'[x].reste) = Encore(requetes[x].reste) \ {Head(requetes[x].reste)}
Autres(x) ==
    /\ requetes' \in [Requete -> EnMain \cup {Libre}]
    /\ \A y \in Requete : y # x => requetes'[y] = requetes[y]

(* A request in hand, in terms of what is left of it.                        *)
LEMMA EngageeSelon ==
    ASSUME NEW q, Engagee(q)
    PROVE  /\ q.op \in Operation /\ Head(q.reste) \in Encore(q.reste)
           /\ Selon(q.op, Head(q.reste), Encore(q.reste))
           /\ Len(q.reste) = 1 <=> Encore(q.reste) = {Head(q.reste)}
           /\ Len(q.reste) # 1 => /\ Tail(q.reste) \in RestesDe(q.op)
                                  /\ Encore(Tail(q.reste)) = Encore(q.reste) \ {Head(q.reste)}
           /\ q # Libre
<1>1. q.op \in Operation /\ q.reste \in RestesDe(q.op) /\ q \in EnMain
  BY DEF Engagee, EnMain
<1>2. q # Libre
  <2>1. Libre.op \notin Operation
    BY Operations DEF Libre
  <2> QED BY <1>1, <2>1, Zenon
<1>3. /\ Head(q.reste) \in Encore(q.reste)
      /\ Selon(q.op, Head(q.reste), Encore(q.reste))
      /\ Len(q.reste) = 1 => Encore(q.reste) = {Head(q.reste)}
      /\ Len(q.reste) # 1 => /\ Tail(q.reste) \in RestesDe(q.op)
                             /\ Encore(Tail(q.reste)) = Encore(q.reste) \ {Head(q.reste)}
  BY <1>1, Restes, Zenon
<1>4. ASSUME Len(q.reste) # 1 PROVE Encore(q.reste) # {Head(q.reste)}
  <2>1. Head(Tail(q.reste)) \in Encore(Tail(q.reste))
    BY <1>1, <1>3, <1>4, Restes, Zenon
  <2>2. Encore(Tail(q.reste)) = Encore(q.reste) \ {Head(q.reste)}
    BY <1>3, <1>4, Zenon
  <2> QED BY <2>1, <2>2, Zenon
<1> QED BY <1>1, <1>2, <1>3, <1>4, Zenon

(* The statements left are those of the sequence; a free request has none.   *)
LEMMA ResteEncore ==
    ASSUME NEW x, NEW i
    PROVE  /\ Reste(x, i) <=> i \in Encore(requetes[x].reste)
           /\ Reste(x, i)' <=> i \in Encore(requetes'[x].reste)
BY DEF Reste, Encore

(* A free request has nothing to do.                                         *)
LEMMA LibreVide ==
    /\ Encore(Libre.reste) = {} /\ Libre.lu = {} /\ Libre.b = Nul /\ Libre.op = "aucune"
    /\ Libre.u = Nul
BY DEF Encore, Libre

(* To end a request frees it and touches no other.                           *)
LEMMA EffetTerminer ==
    ASSUME Types, NEW x \in Requete, Terminer(x)
    PROVE  Autres(x) /\ Finit(x)
<1>1. requetes' = [requetes EXCEPT ![x] = Libre] /\ requetes \in [Requete -> EnMain \cup {Libre}]
  BY DEF Terminer, Types, TypeRequetes
<1> HIDE DEF Libre
<1> QED BY <1>1 DEF Autres, Finit

(* The fields of a request whose statement has run.                          *)
LEMMA EffetLire ==
    ASSUME Types, NEW x \in Requete, Occupee(x), NEW s \in SUBSET (User \X Bureau), Lire(x, s),
           Encore(requetes[x].reste) # {Head(requetes[x].reste)},
           s # {} => Head(Tail(requetes[x].reste)) = "adherer"
    PROVE  Autres(x) /\ Avance(x) /\ requetes'[x].lu = s
<1> PICK q : q = requetes[x]
  OBVIOUS
<1>1. Engagee(q) /\ q \in EnMain /\ requetes \in [Requete -> EnMain \cup {Libre}]
  BY DEF Types, TypeRequetes, Engagee
<1>2. /\ q.op \in Operation /\ Tail(q.reste) \in RestesDe(q.op)
      /\ Encore(Tail(q.reste)) = Encore(q.reste) \ {Head(q.reste)}
  BY <1>1, EngageeSelon, Zenon
<1> PICK n : n = [q EXCEPT !.lu = s, !.reste = Tail(q.reste)]
  OBVIOUS
<1>3. requetes' = [requetes EXCEPT ![x] = n] /\ Tail(q.reste) \in Suites
  <2>1. requetes' = [requetes EXCEPT ![x] = n]
    BY <1>1 DEF Lire
  <2>2. Tail(q.reste) \in Suites
    BY <1>2, Zenon DEF Suites
  <2> QED BY <2>1, <2>2
<1>4. /\ n \in EnMain /\ n.op = q.op /\ n.u = q.u /\ n.r = q.r /\ n.b = q.b /\ n.lu = s
      /\ n.reste = Tail(q.reste)
  BY <1>1, <1>3 DEF EnMain
<1>5. Engagee(n)
  BY <1>1, <1>2, <1>4 DEF Engagee
<1>6. requetes'[x] = n /\ Autres(x)
  BY <1>1, <1>3, <1>4 DEF Autres
<1> QED BY <1>2, <1>4, <1>5, <1>6, Zenon DEF Avance

(* To go on from a statement that is not the insertion.                      *)
LEMMA EffetPoursuivre ==
    ASSUME Types, NEW x \in Requete, Occupee(x), Poursuivre(x),
           Head(requetes[x].reste) # "adherer"
    PROVE  /\ Autres(x)
           /\ \/ Finit(x) /\ Encore(requetes[x].reste) = {Head(requetes[x].reste)}
              \/ Avance(x) /\ Encore(requetes[x].reste) # {Head(requetes[x].reste)}
<1> PICK q : q = requetes[x]
  OBVIOUS
<1>1. Engagee(q) /\ q \in EnMain /\ requetes \in [Requete -> EnMain \cup {Libre}] /\ q.lu = {}
  BY DEF Types, TypeRequetes, Engagee
<1>2. CASE Len(q.reste) = 1
  <2>1. Terminer(x)
    BY <1>2 DEF Poursuivre
  <2> QED BY <1>1, <1>2, <2>1, EffetTerminer, EngageeSelon
<1>3. CASE Len(q.reste) # 1
  <2>1. /\ q.op \in Operation /\ Tail(q.reste) \in RestesDe(q.op)
        /\ Encore(Tail(q.reste)) = Encore(q.reste) \ {Head(q.reste)}
        /\ Encore(q.reste) # {Head(q.reste)}
    BY <1>1, <1>3, EngageeSelon, Zenon
  <2> PICK n : n = [q EXCEPT !.reste = Tail(q.reste)]
    OBVIOUS
  <2>3. requetes' = [requetes EXCEPT ![x] = n]
    BY <1>1, <1>3 DEF Poursuivre
  <2>2. Tail(q.reste) \in Suites
    BY <2>1, Zenon DEF Suites
  <2>4. /\ n \in EnMain /\ n.op = q.op /\ n.u = q.u /\ n.r = q.r /\ n.b = q.b /\ n.lu = {}
        /\ n.reste = Tail(q.reste)
    BY <1>1, <2>2 DEF EnMain
  <2>5. Engagee(n)
    BY <1>1, <2>1, <2>4 DEF Engagee
  <2>6. requetes'[x] = n /\ Autres(x)
    BY <1>1, <2>3, <2>4 DEF Autres
  <2> QED BY <2>1, <2>4, <2>5, <2>6, Zenon DEF Avance
<1> QED BY <1>2, <1>3

(* The reads: what they read is kept for the insertion that follows.         *)
LEMMA EffetLireAdmins ==
    ASSUME Types, NEW x \in Requete, LireAdmins(x)
    PROVE  /\ Autres(x) /\ Avance(x)
           /\ requetes[x].op = "creerBureau" /\ requetes[x].b \in Bureau
           /\ Encore(requetes'[x].reste) = {"adherer", "creerOrganizer"}
           /\ requetes'[x].lu = Admins \X {requetes[x].b}
<1> PICK q : q = requetes[x]
  OBVIOUS
<1>1. Engagee(q) /\ Occupee(x) /\ Head(q.reste) = "lireAdmins"
  BY DEF LireAdmins, Attend, Types, TypeRequetes
<1>2. q.op = "creerBureau" /\ Encore(q.reste) = {"lireAdmins", "adherer", "creerOrganizer"}
  BY <1>1, EngageeSelon DEF Selon
<1>3. q.b \in Bureau
  BY <1>1, <1>2 DEF Engagee
<1>4. Admins \X {q.b} \in SUBSET (User \X Bureau)
  BY <1>3 DEF Admins, Types, TypeLignes
<1>5. /\ Tail(q.reste) \in RestesDe("creerBureau")
      /\ Encore(Tail(q.reste)) = {"adherer", "creerOrganizer"} /\ q.op \in Operation
  BY <1>1, <1>2, EngageeSelon
<1>6. Head(Tail(q.reste)) = "adherer"
  <2>1. Selon("creerBureau", Head(Tail(q.reste)), Encore(Tail(q.reste)))
    BY <1>2, <1>5, Restes
  <2> QED BY <1>5, <2>1 DEF Selon
<1>7. Encore(q.reste) # {Head(q.reste)}
  BY <1>1, <1>2
<1>8. Lire(x, Admins \X {q.b})
  BY DEF LireAdmins
<1>9. Autres(x) /\ Avance(x) /\ requetes'[x].lu = Admins \X {q.b}
  BY <1>1, <1>4, <1>6, <1>7, <1>8, EffetLire, Zenon
<1>10. Encore(requetes'[x].reste) = {"adherer", "creerOrganizer"}
  BY <1>1, <1>2, <1>9 DEF Avance
<1> QED BY <1>2, <1>3, <1>9, <1>10

(* The offices are read for the person promoted.                             *)
LEMMA EffetLireBureaux ==
    ASSUME Types, NEW x \in Requete, LireBureaux(x)
    PROVE  /\ Autres(x) /\ Avance(x)
           /\ requetes[x].op \in {"promouvoir", "transfererPromu"} /\ requetes[x].u \in User
           /\ Encore(requetes'[x].reste) = {"adherer"}
           /\ requetes'[x].lu = {requetes[x].u} \X bureaux
<1> PICK q : q = requetes[x]
  OBVIOUS
<1>1. Engagee(q) /\ Occupee(x) /\ Head(q.reste) = "lireBureaux"
  BY DEF LireBureaux, Attend, Types, TypeRequetes
<1>2. q.op \in {"promouvoir", "transfererPromu"} /\ Encore(q.reste) = {"lireBureaux", "adherer"}
  BY <1>1, EngageeSelon DEF Selon
<1>3. q.u \in User
  BY <1>1, <1>2 DEF Engagee
<1>4. {q.u} \X bureaux \in SUBSET (User \X Bureau)
  BY <1>3 DEF Types, TypeLignes
<1>5. /\ Tail(q.reste) \in RestesDe(q.op) /\ q.op \in Operation
      /\ Encore(Tail(q.reste)) = {"adherer"}
  BY <1>1, <1>2, EngageeSelon
<1>6. Head(Tail(q.reste)) = "adherer"
  <2>1. Head(Tail(q.reste)) \in Encore(Tail(q.reste))
    BY <1>5, Restes
  <2> QED BY <1>5, <2>1
<1>7. Encore(q.reste) # {Head(q.reste)}
  BY <1>1, <1>2
<1>8. Lire(x, {q.u} \X bureaux)
  BY DEF LireBureaux
<1>9. Autres(x) /\ Avance(x) /\ requetes'[x].lu = {q.u} \X bureaux
  BY <1>1, <1>4, <1>6, <1>7, <1>8, EffetLire, Zenon
<1>10. Encore(requetes'[x].reste) = {"adherer"}
  BY <1>1, <1>2, <1>9 DEF Avance
<1> QED BY <1>2, <1>3, <1>9, <1>10

(* The insertion: what was read is used up.                                  *)
LEMMA EffetAdherer ==
    ASSUME Types, NEW x \in Requete, Adherer(x)
    PROVE  /\ Autres(x) /\ Engagee(requetes[x])
           /\ \/ /\ Encore(requetes[x].reste) = {"adherer"} /\ Finit(x)
                 /\ requetes[x].b = Nul
              \/ /\ Encore(requetes[x].reste) = {"adherer", "creerOrganizer"} /\ Finit(x)
                 /\ ~Existent(requetes[x])
              \/ /\ Encore(requetes[x].reste) = {"adherer", "creerOrganizer"} /\ Avance(x)
                 /\ Existent(requetes[x])
<1> PICK q : q = requetes[x]
  OBVIOUS
<1>1. Engagee(q) /\ Occupee(x) /\ Head(q.reste) = "adherer"
  BY DEF Adherer, Attend, Types, TypeRequetes
<1>2. \/ Encore(q.reste) = {"adherer"} /\ q.op \in {"promouvoir", "transfererPromu"}
      \/ Encore(q.reste) = {"adherer", "creerOrganizer"} /\ q.op = "creerBureau"
  BY <1>1, EngageeSelon DEF Selon
<1>3. Encore(q.reste) = {"adherer"} => q.b = Nul /\ Len(q.reste) = 1
  BY <1>1, <1>2, EngageeSelon DEF Engagee
<1>4. CASE ~Existent(q) \/ Len(q.reste) = 1
  <2>1. Terminer(x)
    BY <1>4 DEF Adherer
  <2>2. Autres(x) /\ Finit(x)
    BY <2>1, EffetTerminer
  <2>3. Len(q.reste) = 1 => Encore(q.reste) = {"adherer"}
    BY <1>1, EngageeSelon
  <2> QED BY <1>1, <1>2, <1>3, <1>4, <2>2, <2>3
<1>5. CASE Existent(q) /\ Len(q.reste) # 1
  <2>1. Lire(x, {})
    BY <1>5 DEF Adherer
  <2>2. Encore(q.reste) # {Head(q.reste)}
    BY <1>1, <1>5, EngageeSelon
  <2>3. {} \in SUBSET (User \X Bureau)
    OBVIOUS
  <2>4. Autres(x) /\ Avance(x)
    BY <1>1, <2>1, <2>2, <2>3, EffetLire, Zenon
  <2> QED BY <1>1, <1>2, <1>5, <2>2, <2>4
<1> QED BY <1>4, <1>5

(* Every statement ends its request or makes it go on, and no other.         *)
LEMMA EffetStatement ==
    ASSUME Types, NEW x \in Requete, Statement(x)
    PROVE  Occupee(x) /\ Autres(x) /\ (Finit(x) \/ Avance(x))
<1>1. CASE LireAdmins(x)
  BY <1>1, EffetLireAdmins DEF LireAdmins, Attend
<1>2. CASE LireBureaux(x)
  BY <1>2, EffetLireBureaux DEF LireBureaux, Attend
<1>3. CASE Adherer(x)
  BY <1>3, EffetAdherer DEF Adherer, Attend
<1>4. ASSUME Occupee(x), Head(requetes[x].reste) # "adherer", Poursuivre(x) \/ Terminer(x)
      PROVE  Occupee(x) /\ Autres(x) /\ (Finit(x) \/ Avance(x))
  BY <1>4, EffetPoursuivre, EffetTerminer, Zenon
<1>5. CASE EcrireRole(x)
  BY <1>4, <1>5 DEF EcrireRole, Attend
<1>6. CASE EcrireProprietaire(x)
  BY <1>4, <1>6 DEF EcrireProprietaire, Attend
<1>7. CASE CreerBureau(x)
  BY <1>4, <1>7 DEF CreerBureau, Attend
<1>8. CASE CreerOrganizer(x)
  BY <1>4, <1>8 DEF CreerOrganizer, Attend
<1>9. CASE CreerCompte(x)
  BY <1>4, <1>9 DEF CreerCompte, Attend
<1>10. CASE CreerUser(x)
  BY <1>4, <1>10 DEF CreerUser, Attend
<1>11. CASE CreerPersonnel(x)
  BY <1>4, <1>11 DEF CreerPersonnel, Attend
<1>12. CASE SupprimerUser(x)
  BY <1>4, <1>12 DEF SupprimerUser, Attend
<1>13. CASE QuitterAilleurs(x)
  BY <1>4, <1>13 DEF QuitterAilleurs, Attend
<1>14. CASE CompterRestants(x)
  BY <1>4, <1>14 DEF CompterRestants, Attend
<1>15. CASE SupprimerCompte(x)
  BY <1>4, <1>15 DEF SupprimerCompte, Attend
<1> QED BY <1>1, <1>2, <1>3, <1>5, <1>6, <1>7, <1>8, <1>9, <1>10, <1>11, <1>12, <1>13,
     <1>14,
           <1>15 DEF Statement

(* A request begins with the arguments its checks let through.               *)
LEMMA EffetCharger ==
    ASSUME Types, NEW x \in Requete, NEW op \in Operation, NEW u \in User \cup {Nul},
           NEW r \in RoleGlobal \cup {Nul}, NEW b \in Bureau \cup {Nul}, Charger(x, op, u, r, b)
    PROVE  /\ ~Occupee(x) /\ Autres(x) /\ Engagee(requetes'[x])
           /\ requetes'[x].op = op /\ requetes'[x].u = u /\ requetes'[x].r = r
           /\ requetes'[x].b = b /\ requetes'[x].lu = {}
           /\ \/ requetes'[x].reste = Programme[op]
              \/ op = "accepter" /\ u \in comptes /\ requetes'[x].reste = Rattachement
<1> PICK s : s = IF op = "accepter" /\ u \in comptes THEN Rattachement ELSE Programme[op]
  OBVIOUS
<1>1. s \in RestesDe(op) /\ s \in Suites
  BY Debuts DEF Suites
<1>2. s = Programme[op] \/ (op = "accepter" /\ u \in comptes /\ s = Rattachement)
  BY Zenon
<1> PICK n : n = [op |-> op, u |-> u, r |-> r, b |-> b, lu |-> {}, reste |-> s]
  OBVIOUS
<1>3. requetes' = [requetes EXCEPT ![x] = n] /\ ~Occupee(x) /\ Convient(op, u, r, b)
  BY DEF Charger, Permise
<1>4. /\ n.op = op /\ n.u = u /\ n.r = r /\ n.b = b /\ n.lu = {} /\ n.reste = s
      /\ n \in EnMain
  BY <1>1 DEF EnMain
<1>5. op = "creerBureau" => u = Nul /\ b \in Bureau
  BY <1>3 DEF Convient
<1>6. op # "creerBureau" => u \in User /\ b = Nul
  BY <1>3 DEF Convient, Cible, Types, TypeLignes
<1>7. /\ op \in {"promouvoir", "transfererPromu"} => r = "ADMIN"
      /\ op \in {"changerRole", "ajouter", "accepter"} => r \in RoleGlobal \ {"ADMIN"}
  BY <1>3 DEF Convient, RoleGlobal
<1>8. Engagee(n)
  BY <1>1, <1>4, <1>5, <1>6, <1>7 DEF Engagee
<1>9. requetes'[x] = n /\ Autres(x)
  BY <1>3, <1>4 DEF Autres, Types, TypeRequetes
<1> QED BY <1>2, <1>3, <1>4, <1>8, <1>9

(* Every request is where its program may be.                                *)
LEMMA TypeRequetesStep ==
    Types /\ [Next]_vars => TypeRequetes'
<1> SUFFICES ASSUME Types, [Next]_vars PROVE TypeRequetes'
  OBVIOUS
<1>u. ASSUME requetes' = requetes PROVE TypeRequetes'
  BY <1>u DEF Types, TypeRequetes, Occupee
<1>a. ASSUME NEW x \in Requete, Autres(x), requetes'[x] = Libre \/ Engagee(requetes'[x])
      PROVE  TypeRequetes'
  <2>1. ASSUME NEW y \in Requete, Occupee(y)' PROVE Engagee(requetes'[y])
    <3>1. CASE y = x
      BY <1>a, <2>1, <3>1 DEF Occupee
    <3>2. CASE y # x
      BY <1>a, <2>1, <3>2 DEF Occupee, Autres, Types, TypeRequetes
    <3> QED BY <3>1, <3>2
  <2> QED BY <1>a, <2>1 DEF TypeRequetes, Autres
<1>1. ASSUME NEW x \in Requete, Recevoir(x) PROVE TypeRequetes'
  BY <1>1, <1>a, EffetCharger DEF Recevoir
<1>2. ASSUME NEW x \in Requete, Statement(x) PROVE TypeRequetes'
  BY <1>2, <1>a, EffetStatement DEF Finit, Avance
<1>3. CASE Immediat
  BY <1>3, <1>u DEF Immediat, InviterAuBureau, AccepterAuBureau, OublierInvitation,
       QuitterBureau,
     SupprimerBureau, Inviter, Desinviter, Inscrire, SupprimerCompteAdmin, horsAdhesions
<1>4. CASE Arret
  BY <1>4 DEF Arret, TypeRequetes, Occupee
<1>5. CASE UNCHANGED vars
  BY <1>5, <1>u DEF vars
<1> QED BY <1>1, <1>2, <1>3, <1>4, <1>5 DEF Next

(* The rows keep to their types, statement by statement.                     *)
LEMMA TypeSansUser ==
    ASSUME Types, NEW u \in User, SansUser(u)
    PROVE  /\ users' = users \ {u} /\ role' \in [User -> RoleGlobal]
           /\ adhesions' \subseteq users' \X bureaux /\ invitations' \subseteq users' \X bureaux
           /\ organizers' \subseteq users' \cup bureaux
           /\ manques' \subseteq (User \cup {Nul}) \X Bureau
<1>1. /\ users' = users \ {u} /\ role' \in [User -> RoleGlobal]
      /\ organizers' \subseteq users' \cup bureaux
      /\ manques' \subseteq (User \cup {Nul}) \X Bureau
  BY DEF SansUser, Types, TypeLignes, RoleGlobal
<1>2. ASSUME NEW p \in adhesions' PROVE p \in users' \X bureaux
  <2>1. p \in users \X bureaux /\ p[1] # u
    BY DEF SansUser, Types, TypeLignes
  <2> QED BY <1>1, <2>1
<1>3. ASSUME NEW p \in invitations' PROVE p \in users' \X bureaux
  <2>1. p \in users \X bureaux /\ p[1] # u
    BY DEF SansUser, Types, TypeLignes
  <2> QED BY <1>1, <2>1
<1> QED BY <1>1, <1>2, <1>3

(* The rows without an account.                                              *)
LEMMA TypeSansCompte ==
    ASSUME Types, NEW u \in User, SansCompte(u), UNCHANGED <<proprietaire, bureaux, invites>>,
           croise' \in BOOLEAN
    PROVE  TypeLignes'
<1>1. SansUser(u) /\ comptes' = comptes \ {u} /\ ailleurs' = ailleurs \ {u}
      /\ orphelins' = orphelins \ {u}
  BY DEF SansCompte
<1> QED BY <1>1, TypeSansUser DEF Types, TypeLignes

(* A statement writes rows of the types.                                     *)
LEMMA TypeStatement ==
    ASSUME Types, NEW x \in Requete, Statement(x)
    PROVE  TypeLignes'
<1> USE DEF Types, TypeLignes
<1> PICK q : q = requetes[x]
  OBVIOUS
<1>e. Engagee(q)
  BY EffetStatement DEF TypeRequetes
<1>s. Selon(q.op, Head(q.reste), Encore(q.reste))
  BY <1>e, EngageeSelon
<1>l. q.lu \in SUBSET (User \X Bureau)
  BY <1>e DEF Engagee, EnMain
<1>1. CASE EcrireRole(x)
  <2>1. Head(q.reste) = "ecrireRole"
    BY <1>1 DEF EcrireRole, Attend
  <2>2. q.u \in User /\ q.r \in RoleGlobal
    BY <1>e, <1>s, <2>1 DEF Selon, Engagee, RoleGlobal
  <2> QED BY <1>1, <2>2 DEF EcrireRole
<1>2. CASE EcrireProprietaire(x)
  <2>1. Head(q.reste) = "ecrireProprietaire"
    BY <1>2 DEF EcrireProprietaire, Attend
  <2>2. q.u \in User
    BY <1>e, <1>s, <2>1 DEF Selon, Engagee
  <2> QED BY <1>2, <2>2 DEF EcrireProprietaire
<1>3. CASE CreerBureau(x)
  <2>1. Head(q.reste) = "creerBureau"
    BY <1>3 DEF CreerBureau, Attend
  <2>2. q.b \in Bureau
    BY <1>e, <1>s, <2>1 DEF Selon, Engagee
  <2> QED BY <1>3, <2>2 DEF CreerBureau
<1>4. CASE LireAdmins(x)
  BY <1>4 DEF LireAdmins, lignes
<1>5. CASE LireBureaux(x)
  BY <1>5 DEF LireBureaux, lignes
<1>6. CASE Adherer(x)
  <2>1. adhesions' \subseteq users \X bureaux
    BY <1>6 DEF Adherer, Existent
  <2>2. SansOrganizer(q.b) \subseteq (User \cup {Nul}) \X Bureau
    BY DEF SansOrganizer
  <2>3. manques' \subseteq (User \cup {Nul}) \X Bureau
    BY <1>6, <1>l, <2>2 DEF Adherer
  <2> QED BY <1>6, <2>1, <2>3 DEF Adherer
<1>7. CASE CreerOrganizer(x)
  <2>1. SansOrganizer(q.b) \subseteq (User \cup {Nul}) \X Bureau
    BY DEF SansOrganizer
  <2> QED BY <1>7, <2>1 DEF CreerOrganizer
<1>8. ASSUME Head(q.reste) \in {"creerCompte", "creerUser", "creerPersonnel", "supprimerUser",
                                "quitterAilleurs", "supprimerCompte"}
      PROVE  q.u \in User /\ (Head(q.reste) = "creerUser" => q.r \in RoleGlobal)
  BY <1>e, <1>s, <1>8 DEF Selon, Engagee, RoleGlobal
<1>9. CASE CreerCompte(x)
  BY <1>8, <1>9 DEF CreerCompte, Attend
<1>10. CASE CreerUser(x)
  <2>1. q.u \in User /\ q.r \in RoleGlobal
    BY <1>8, <1>10 DEF CreerUser, Attend
  <2> QED BY <1>10, <2>1 DEF CreerUser
<1>11. CASE CreerPersonnel(x)
  BY <1>8, <1>11 DEF CreerPersonnel, Attend
<1>12. CASE SupprimerUser(x)
  <2>1. q.u \in User
    BY <1>8, <1>12 DEF SupprimerUser, Attend
  <2>2. CASE q.u \in users
    <3>1. SansUser(q.u)
      BY <1>12, <2>2 DEF SupprimerUser
    <3> QED BY <1>12, <2>1, <3>1, TypeSansUser DEF SupprimerUser
  <2>3. CASE q.u \notin users
    BY <1>12, <2>3 DEF SupprimerUser
  <2> QED BY <2>2, <2>3
<1>13. CASE QuitterAilleurs(x)
  BY <1>8, <1>13 DEF QuitterAilleurs, Attend
<1>14. CASE CompterRestants(x)
  BY <1>14 DEF CompterRestants, lignes
<1>15. CASE SupprimerCompte(x)
  <2>1. q.u \in User
    BY <1>8, <1>15 DEF SupprimerCompte, Attend
  <2>2. SansCompte(q.u) /\ UNCHANGED <<proprietaire, bureaux, invites>> /\ croise' \in BOOLEAN
    BY <1>15 DEF SupprimerCompte
  <2> QED BY <2>1, <2>2, TypeSansCompte
<1> QED BY <1>1, <1>2, <1>3, <1>4, <1>5, <1>6, <1>7, <1>9, <1>10, <1>11, <1>12, <1>13,
     <1>14,
           <1>15 DEF Statement

(* So do the handlers of one statement.                                      *)
LEMMA TypeImmediat ==
    ASSUME Types, Immediat
    PROVE  TypeLignes'
<1> USE DEF Types, TypeLignes
<1>1. ASSUME NEW u \in User, NEW b \in Bureau, InviterAuBureau(u, b) PROVE TypeLignes'
  BY <1>1 DEF InviterAuBureau, horsAdhesions
<1>2. ASSUME NEW u \in User, NEW b \in Bureau, AccepterAuBureau(u, b) PROVE TypeLignes'
  BY <1>2 DEF AccepterAuBureau, horsAdhesions
<1>3. ASSUME NEW u \in User, NEW b \in Bureau, OublierInvitation(u, b) PROVE TypeLignes'
  BY <1>3 DEF OublierInvitation, horsAdhesions
<1>4. ASSUME NEW u \in User, NEW b \in Bureau, QuitterBureau(u, b) PROVE TypeLignes'
  BY <1>4 DEF QuitterBureau, horsAdhesions
<1>5. ASSUME NEW b \in Bureau, SupprimerBureau(b) PROVE TypeLignes'
  <2>1. ASSUME NEW p \in adhesions' PROVE p \in users \X bureaux'
    BY <1>5 DEF SupprimerBureau
  <2>2. ASSUME NEW p \in invitations' PROVE p \in users \X bureaux'
    BY <1>5 DEF SupprimerBureau
  <2> QED BY <1>5, <2>1, <2>2 DEF SupprimerBureau
<1>6. ASSUME NEW u \in User, Inviter(u) PROVE TypeLignes'
  BY <1>6 DEF Inviter
<1>7. ASSUME NEW u \in User, Desinviter(u) PROVE TypeLignes'
  BY <1>7 DEF Desinviter
<1>8. ASSUME NEW u \in User, Inscrire(u) PROVE TypeLignes'
  BY <1>8 DEF Inscrire
<1>9. ASSUME NEW u \in User, SupprimerCompteAdmin(u) PROVE TypeLignes'
  <2>1. SansCompte(u) /\ UNCHANGED <<proprietaire, bureaux, invites>> /\ croise' \in BOOLEAN
    BY <1>9 DEF SupprimerCompteAdmin
  <2> QED BY <2>1, TypeSansCompte
<1> QED BY <1>1, <1>2, <1>3, <1>4, <1>5, <1>6, <1>7, <1>8, <1>9 DEF Immediat

(* What a stop writes down is lost or left behind.                           *)
LEMMA TypeArret ==
    ASSUME Types, Arret
    PROVE  TypeLignes'
<1>1. ASSUME NEW m \in manques' PROVE m \in (User \cup {Nul}) \X Bureau
  <2>1. CASE m \in manques
    BY <2>1 DEF Types, TypeLignes
  <2>2. CASE m \notin manques
    <3>1. PICK x \in Requete :
            /\ Occupee(x)
            /\ \/ m \in ({requetes[x].u} \cap Admins) \X bureaux
               \/ m \in Admins \X ({requetes[x].b} \cap bureaux)
               \/ m \in SansOrganizer(requetes[x].b)
               \/ m \in requetes[x].lu
      BY <2>2 DEF Arret
    <3>2. requetes[x].lu \subseteq User \X Bureau
      BY <3>1 DEF Types, TypeRequetes, Engagee, EnMain
    <3> QED BY <3>1, <3>2 DEF Types, TypeLignes, Admins, SansOrganizer
  <2> QED BY <2>1, <2>2
<1>2. ASSUME NEW x \in Requete, Occupee(x), Reste(x, "creerUser") \/ Reste(x, "supprimerCompte")
      PROVE  requetes[x].u \in User
  <2>1. Engagee(requetes[x])
    BY <1>2 DEF Types, TypeRequetes
  <2>2. \/ "creerUser" \in Encore(requetes[x].reste)
        \/ "supprimerCompte" \in Encore(requetes[x].reste)
    BY <1>2, ResteEncore
  <2>3. requetes[x].op # "creerBureau"
    BY <2>1, <2>2, EngageeSelon DEF Selon
  <2> QED BY <2>1, <2>3 DEF Engagee
<1>3. orphelins' \subseteq User /\ croise' \in BOOLEAN
  BY <1>2 DEF Arret, Types, TypeLignes
<1> QED BY <1>1, <1>3 DEF Arret, lignes, Types, TypeLignes

(* Every action keeps the types.                                             *)
LEMMA TypesStep ==
    Types /\ [Next]_vars => Types'
<1> SUFFICES ASSUME Types, [Next]_vars PROVE TypeLignes'
  BY TypeRequetesStep DEF Types
<1>1. ASSUME NEW x \in Requete, Recevoir(x) PROVE TypeLignes'
  BY <1>1 DEF Recevoir, Charger, lignes, Types, TypeLignes
<1>2. ASSUME NEW x \in Requete, Statement(x) PROVE TypeLignes'
  BY <1>2, TypeStatement
<1>3. CASE UNCHANGED vars
  BY <1>3 DEF vars, Types, TypeLignes
<1> QED BY <1>1, <1>2, <1>3, TypeImmediat, TypeArret DEF Next

(* At the start.                                                             *)
LEMMA TypesInit ==
    Init => Types
<1> SUFFICES ASSUME Init PROVE Types
  OBVIOUS
<1>1. TypeRequetes
  BY DEF Init, TypeRequetes, Occupee
<1>2. PICK d \in Depart : /\ users = {Fondateur} \cup d.membres /\ ailleurs = d.ailleurs
                          /\ comptes = users \cup ailleurs
  BY DEF Init
<1>3. users \subseteq User /\ ailleurs \subseteq User /\ Fondateur \in User
  BY <1>2, MembresAssumption
<1> QED BY <1>1, <1>2, <1>3 DEF Init, Types, TypeLignes, RoleGlobal

(* The members, accounts, offices and memberships refer to each other, and   *)
(* every request has only statements of its program left, in their order,    *)
(* with the arguments its checks let through.                                *)
THEOREM MembresTypeCorrect == Spec => []Types
<1>1. Types /\ [Next]_vars => Types'
  BY TypesStep
<1> QED BY TypesInit, <1>1, PTL DEF Spec

-----------------------------------------------------------------------------
(* The limit of offices: creations that have passed the check wait for their *)
(* row, and an office created is one that waits less.                        *)

EnAttente == {x \in Requete : Attend(x, "creerBureau")}

(* Once begun, a request never waits to create its office again.             *)
LEMMA AttenteDecroit ==
    ASSUME Types, NEW x \in Requete, Statement(x)
    PROVE  EnAttente' \subseteq EnAttente \ {x}
<1>1. Autres(x) /\ (Finit(x) \/ Avance(x)) /\ Engagee(requetes[x])
  BY EffetStatement DEF Types, TypeRequetes
<1>2. ASSUME Avance(x), Head(requetes'[x].reste) = "creerBureau" PROVE FALSE
  <2>1. Engagee(requetes'[x]) /\ requetes'[x].op = requetes[x].op
    BY <1>2 DEF Avance
  <2>2. requetes'[x].op = "creerBureau" /\ "creerBureau" \in Encore(requetes'[x].reste)
    BY <1>2, <2>1, EngageeSelon DEF Selon
  <2>3. "creerBureau" \in Encore(requetes[x].reste) /\ Head(requetes[x].reste) # "creerBureau"
    BY <1>2, <2>2 DEF Avance
  <2>4. Selon(requetes[x].op, Head(requetes[x].reste), Encore(requetes[x].reste))
    BY <1>1, EngageeSelon
  <2> QED BY ONLY <2>3, <2>4 DEF Selon
<1>3. ASSUME NEW y \in EnAttente' PROVE y \in EnAttente \ {x}
  <2>1. y \in Requete /\ Occupee(y)' /\ Head(requetes'[y].reste) = "creerBureau"
    BY <1>3 DEF EnAttente, Attend
  <2>2. y # x
    BY <1>1, <1>2, <2>1 DEF Finit, Occupee
  <2> QED BY <1>1, <2>1, <2>2 DEF EnAttente, Attend, Occupee, Autres
<1> QED BY <1>3

(* Every action keeps the offices and the creations that wait within the bound. *)
LEMMA BureauxBornesStep ==
    Types /\ BureauxBornes /\ [Next]_vars => BureauxBornes'
<1> SUFFICES ASSUME Types, BureauxBornes, [Next]_vars PROVE BureauxBornes'
  OBVIOUS
<1>0. MaxBureaux \in Nat /\ MaxIdentite \in Nat /\ IsFiniteSet(Requete)
  BY MembresAssumption
<1>f. /\ IsFiniteSet(bureaux) /\ Cardinality(bureaux) \in Nat
      /\ IsFiniteSet(EnAttente) /\ Cardinality(EnAttente) \in Nat /\ Cardinality(Requete) \in Nat
  <2>1. IsFiniteSet(Bureau)
    BY <1>0, FS_Interval DEF Bureau
  <2>2. bureaux \subseteq Bureau /\ EnAttente \subseteq Requete
    BY DEF Types, TypeLignes, EnAttente
  <2> QED BY <1>0, <2>1, <2>2, FS_Subset, FS_CardinalityType
<1>b. Cardinality(bureaux) + Cardinality(EnAttente) <= MaxBureaux + Cardinality(Requete) - 1
  BY DEF BureauxBornes, EnAttente
<1>g. SUFFICES Cardinality(bureaux') + Cardinality(EnAttente')
                 <= MaxBureaux + Cardinality(Requete) - 1
  BY DEF BureauxBornes, EnAttente
<1>m. ASSUME bureaux' \subseteq bureaux, EnAttente' \subseteq EnAttente
      PROVE  Cardinality(bureaux') + Cardinality(EnAttente')
                 <= MaxBureaux + Cardinality(Requete) - 1
  <2>1. /\ Cardinality(bureaux') <= Cardinality(bureaux) /\ Cardinality(bureaux') \in Nat
        /\ Cardinality(EnAttente') <= Cardinality(EnAttente) /\ Cardinality(EnAttente') \in Nat
    BY <1>f, <1>m, FS_Subset, FS_CardinalityType
  <2> QED BY ONLY <1>b, <1>0, <1>f, <2>1, SMT
<1>u. ASSUME requetes' = requetes PROVE EnAttente' = EnAttente
  BY <1>u DEF EnAttente, Attend, Occupee
<1>1. ASSUME NEW x \in Requete, NEW op \in Operation, NEW u \in User \cup {Nul},
             NEW r \in RoleGlobal \cup {Nul}, NEW b \in Bureau \cup {Nul}, Charger(x, op, u, r, b)
      PROVE  Cardinality(bureaux') + Cardinality(EnAttente')
                 <= MaxBureaux + Cardinality(Requete) - 1
  <2>1. bureaux' = bureaux /\ Convient(op, u, r, b)
    BY <1>1 DEF Charger, Permise, lignes
  <2>2. CASE op = "creerBureau"
    <3>1. Cardinality(bureaux) < MaxBureaux
      BY <2>1, <2>2 DEF Convient, PlaceLibre
    <3>2. EnAttente' \subseteq Requete
      BY DEF EnAttente
    <3>3. Cardinality(EnAttente') <= Cardinality(Requete) /\ Cardinality(EnAttente') \in Nat
      BY <1>0, <3>2, FS_Subset, FS_CardinalityType
    <3> QED BY ONLY <1>0, <1>f, <2>1, <3>1, <3>3, SMT
  <2>3. CASE op # "creerBureau"
    <3>1. Autres(x) /\ Engagee(requetes'[x]) /\ requetes'[x].op = op
      BY <1>1, EffetCharger
    <3>2. Head(requetes'[x].reste) # "creerBureau"
      BY <2>3, <3>1, EngageeSelon DEF Selon
    <3>3. ASSUME NEW y \in EnAttente' PROVE y \in EnAttente
      BY <3>1, <3>2, <3>3 DEF EnAttente, Attend, Occupee, Autres
    <3> QED BY <1>m, <2>1, <3>3
  <2> QED BY <2>2, <2>3
<1>2. ASSUME NEW x \in Requete, CreerBureau(x)
      PROVE  Cardinality(bureaux') + Cardinality(EnAttente')
                 <= MaxBureaux + Cardinality(Requete) - 1
  <2>1. EnAttente' \subseteq EnAttente \ {x} /\ x \in EnAttente
    BY <1>2, AttenteDecroit DEF Statement, CreerBureau, EnAttente
  <2>2. IsFiniteSet(EnAttente \ {x}) /\ Cardinality(EnAttente \ {x}) = Cardinality(EnAttente) - 1
    BY <1>f, <2>1, FS_RemoveElement
  <2>3. /\ Cardinality(EnAttente') <= Cardinality(EnAttente) - 1
        /\ Cardinality(EnAttente') \in Nat
    BY <2>1, <2>2, FS_Subset, FS_CardinalityType
  <2>4. /\ Cardinality(bureaux') <= Cardinality(bureaux) + 1
        /\ Cardinality(bureaux') \in Nat
    <3>1. bureaux' = bureaux \cup {requetes[x].b}
      BY <1>2 DEF CreerBureau
    <3>2. /\ IsFiniteSet(bureaux \cup {requetes[x].b})
          /\ Cardinality(bureaux \cup {requetes[x].b})
               = IF requetes[x].b \in bureaux THEN Cardinality(bureaux)
                                              ELSE Cardinality(bureaux) + 1
      BY <1>f, FS_AddElement
    <3>3. Cardinality(bureaux \cup {requetes[x].b}) <= Cardinality(bureaux) + 1
      BY <1>f, <3>2
    <3> QED BY <3>1, <3>2, <3>3, FS_CardinalityType
  <2> QED BY ONLY <1>b, <1>0, <1>f, <2>3, <2>4, SMT
<1>3. ASSUME NEW x \in Requete, Statement(x), ~CreerBureau(x)
      PROVE  Cardinality(bureaux') + Cardinality(EnAttente')
                 <= MaxBureaux + Cardinality(Requete) - 1
  <2>1. bureaux' = bureaux
    BY <1>3 DEF Statement, EcrireRole, EcrireProprietaire, LireAdmins, LireBureaux, Adherer,
       CreerOrganizer, CreerCompte, CreerUser, CreerPersonnel, SupprimerUser,
       QuitterAilleurs,
       CompterRestants, SupprimerCompte, lignes
  <2> QED BY <1>3, <1>m, <2>1, AttenteDecroit
<1>4. CASE Immediat
  <2>1. bureaux' \subseteq bureaux /\ requetes' = requetes
    BY <1>4 DEF Immediat, InviterAuBureau, AccepterAuBureau, OublierInvitation,
         QuitterBureau,
       SupprimerBureau, Inviter, Desinviter, Inscrire, SupprimerCompteAdmin, horsAdhesions
  <2> QED BY <1>m, <1>u, <2>1
<1>5. CASE Arret
  <2>1. bureaux' = bureaux /\ EnAttente' = {}
    BY <1>5 DEF Arret, lignes, EnAttente, Attend, Occupee
  <2> QED BY <1>m, <2>1
<1>6. CASE UNCHANGED vars
  <2>1. bureaux' = bureaux /\ requetes' = requetes
    BY <1>6 DEF vars
  <2> QED BY <1>m, <1>u, <2>1
<1> QED BY <1>1, <1>2, <1>3, <1>4, <1>5, <1>6 DEF Next, Recevoir

(* At the start there is no office, and at least one request.                *)
LEMMA BureauxBornesInit ==
    Init => BureauxBornes
<1> SUFFICES ASSUME Init PROVE BureauxBornes
  OBVIOUS
<1>1. EnAttente = {} /\ bureaux = {}
  BY DEF Init, EnAttente, Attend, Occupee
<1>2. Cardinality({}) = 0
  BY FS_EmptySet
<1>3. Cardinality(Requete) \in Nat /\ Cardinality(Requete) # 0
  BY MembresAssumption, FS_CardinalityType, FS_EmptySet
<1>4. Cardinality(bureaux) + Cardinality(EnAttente) <= MaxBureaux + Cardinality(Requete) - 1
  BY <1>1, <1>2, <1>3, MembresAssumption
<1> QED BY <1>4 DEF BureauxBornes, EnAttente

-----------------------------------------------------------------------------
(* The Organizer of every office.                                            *)

(* What the next statement says of a request in hand.                        *)
LEMMA Prochain ==
    ASSUME Types, NEW x \in Requete, Occupee(x)
    PROVE  /\ Engagee(requetes[x])
           /\ Selon(requetes[x].op, Head(requetes[x].reste), Encore(requetes[x].reste))
           /\ requetes[x].u \in User \/ requetes[x].op = "creerBureau"
           /\ requetes[x].b = Nul \/ requetes[x].op = "creerBureau"
           /\ requetes[x].lu \in SUBSET (User \X Bureau)
           /\ requetes[x].lu # {} => Head(requetes[x].reste) = "adherer"
<1>1. Engagee(requetes[x])
  BY DEF Types, TypeRequetes
<1> QED BY <1>1, EngageeSelon DEF Engagee, EnMain

(* A request that ends creates no office, unless the row it waited for or    *)
(* the Organizer was refused.                                                *)
LEMMA FinSansBureau ==
    ASSUME Types, NEW x \in Requete, Statement(x), ~Adherer(x), ~CreerOrganizer(x)
    PROVE  requetes[x].b = Nul \/ Avance(x)
<1>1. Occupee(x) /\ (Finit(x) \/ Avance(x))
  BY EffetStatement
<1>2. CASE CreerBureau(x)
  <2>1. Head(requetes[x].reste) = "creerBureau" /\ Poursuivre(x)
    BY <1>2 DEF CreerBureau, Attend
  <2>2. Encore(requetes[x].reste) # {Head(requetes[x].reste)}
    BY <1>1, <2>1, Prochain DEF Selon
  <2> QED BY <1>1, <2>1, <2>2, EffetPoursuivre
<1>3. CASE LireAdmins(x)
  BY <1>3, EffetLireAdmins
<1>4. ASSUME Head(requetes[x].reste) \notin {"creerBureau", "lireAdmins", "adherer", "creerOrganizer"}
      PROVE  requetes[x].b = Nul
  BY <1>1, <1>4, Prochain DEF Selon
<1>5. ASSUME ~CreerBureau(x), ~LireAdmins(x)
      PROVE  Head(requetes[x].reste) \notin {"creerBureau", "lireAdmins", "adherer", "creerOrganizer"}
  BY <1>5 DEF Statement, Attend, EcrireRole, EcrireProprietaire, LireBureaux, CreerCompte,
     CreerUser, CreerPersonnel, SupprimerUser, QuitterAilleurs, CompterRestants,
     SupprimerCompte
<1> QED BY <1>2, <1>3, <1>4, <1>5

(* Every action keeps an Organizer to an office, or the exception.           *)
LEMMA OrganizerPresentStep ==
    Types /\ OrganizerPresent /\ [Next]_vars => OrganizerPresent'
<1> SUFFICES ASSUME Types, OrganizerPresent, [Next]_vars, NEW b \in bureaux'
             PROVE  \/ b \in organizers' \/ <<Nul, b>> \in manques'
                    \/ \E x \in Requete : requetes'[x].b = b
  BY DEF OrganizerPresent
<1> DEFINE But == \/ b \in organizers' \/ <<Nul, b>> \in manques'
                  \/ \E x \in Requete : requetes'[x].b = b
<1>0. /\ Nul \notin Bureau /\ Nul \notin User /\ User \cap Bureau = {} /\ bureaux \subseteq Bureau
  BY MembresAssumption DEF Bureau, Types, TypeLignes
<1>p. ASSUME b \in bureaux
      PROVE  b \in organizers \/ <<Nul, b>> \in manques \/ \E x \in Requete : requetes[x].b = b
  BY <1>p DEF OrganizerPresent
<1>k. ASSUME NEW x \in Requete, Autres(x), b \in bureaux,
             b \in organizers => b \in organizers', <<Nul, b>> \in manques => <<Nul, b>> \in manques',
             requetes[x].b = b => requetes'[x].b = b
      PROVE  But
  BY <1>p, <1>k DEF Autres
<1>s. ASSUME NEW u \in User, SansUser(u), b \in bureaux, requetes' = requetes \/
                (\E x \in Requete : Autres(x) /\ requetes[x].b = Nul)
      PROVE  But
  <2>1. b \in organizers => b \in organizers'
    BY <1>0, <1>s DEF SansUser
  <2>2. <<Nul, b>> \in manques => <<Nul, b>> \in manques'
    BY <1>0, <1>s DEF SansUser
  <2> QED BY <1>0, <1>p, <1>s, <2>1, <2>2 DEF Autres
<1>1. ASSUME NEW x \in Requete, Recevoir(x) PROVE But
  <2>1. /\ UNCHANGED <<bureaux, organizers, manques>> /\ Autres(x) /\ requetes[x].b = Nul
    BY <1>1, EffetCharger, LibreVide DEF Recevoir, Charger, lignes, Occupee
  <2>2. requetes[x].b # b
    BY <1>0, <2>1
  <2> QED BY <1>k, <2>1, <2>2
<1>2. ASSUME NEW x \in Requete, Statement(x) PROVE But
  <2>0. Autres(x) /\ Occupee(x)
    BY <1>2, EffetStatement
  <2>1. CASE Adherer(x)
    <3>1. bureaux' = bureaux /\ organizers' = organizers
      BY <2>1 DEF Adherer
    <3>2. <<Nul, b>> \in manques => <<Nul, b>> \in manques'
      <4>1. <<Nul, b>> \notin requetes[x].lu
        BY <1>0, <2>0, Prochain
      <4> QED BY <2>1, <4>1 DEF Adherer
    <3>3. CASE requetes[x].b # b \/ Avance(x)
      BY <1>k, <2>0, <3>1, <3>2, <3>3 DEF Avance
    <3>4. CASE requetes[x].b = b /\ ~Avance(x)
      <4>1. "creerOrganizer" \in Encore(requetes[x].reste) /\ ~Existent(requetes[x])
        BY <1>0, <2>1, <3>1, <3>4, EffetAdherer
      <4>2. Reste(x, "creerOrganizer")
        BY <4>1, ResteEncore
      <4>3. SansOrganizer(b) \subseteq manques'
        BY <2>1, <3>4, <4>1, <4>2 DEF Adherer
      <4> QED BY <3>1, <4>3 DEF SansOrganizer
    <3> QED BY <3>3, <3>4
  <2>2. CASE CreerOrganizer(x)
    <3>1. /\ bureaux' = bureaux /\ organizers \subseteq organizers' /\ manques \subseteq manques'
      BY <2>2 DEF CreerOrganizer
    <3>2. CASE requetes[x].b = b
      BY <2>2, <3>1, <3>2 DEF CreerOrganizer, SansOrganizer
    <3>3. CASE requetes[x].b # b
      BY <1>k, <2>0, <3>1, <3>3
    <3> QED BY <3>2, <3>3
  <2>3. CASE ~Adherer(x) /\ ~CreerOrganizer(x)
    <3>1. requetes[x].b = Nul \/ Avance(x)
      BY <1>2, <2>3, FinSansBureau
    <3>2. requetes[x].b = b => requetes'[x].b = b
      <4>1. b \in Bureau
        BY <1>2, <1>0, <2>0, TypeStatement DEF TypeLignes
      <4> QED BY <1>0, <3>1, <4>1 DEF Avance
    <3>3. ASSUME UNCHANGED <<bureaux, organizers, manques>> PROVE But
      BY <1>k, <2>0, <3>2, <3>3
    <3>4. CASE EcrireRole(x)
      <4>1. requetes[x].u \in User
        BY <2>0, <3>4, Prochain DEF EcrireRole, Attend, Selon
      <4>2. <<Nul, b>> \in manques => <<Nul, b>> \in manques'
        BY <1>0, <3>4, <4>1 DEF EcrireRole
      <4> QED BY <1>k, <2>0, <3>2, <3>4, <4>2 DEF EcrireRole
    <3>5. CASE CreerBureau(x)
      <4>1. CASE b \in bureaux
        BY <1>k, <2>0, <3>2, <3>5, <4>1 DEF CreerBureau
      <4>2. CASE b \notin bureaux
        BY <3>2, <3>5, <4>2 DEF CreerBureau
      <4> QED BY <4>1, <4>2
    <3>6. CASE CreerPersonnel(x)
      BY <1>k, <2>0, <3>2, <3>6 DEF CreerPersonnel
    <3>7. ASSUME Head(requetes[x].reste) \in {"supprimerUser", "supprimerCompte"}
          PROVE  requetes[x].u \in User /\ requetes[x].b = Nul
      BY <2>0, <3>7, Prochain DEF Selon
    <3>8. CASE SupprimerUser(x)
      <4>1. CASE requetes[x].u \in users
        <5>1. SansUser(requetes[x].u) /\ bureaux' = bureaux
          BY <3>8, <4>1 DEF SupprimerUser
        <5> QED BY <1>s, <2>0, <3>7, <3>8, <5>1 DEF SupprimerUser, Attend
      <4>2. CASE requetes[x].u \notin users
        BY <3>3, <3>8, <4>2 DEF SupprimerUser
      <4> QED BY <4>1, <4>2
    <3>9. CASE SupprimerCompte(x)
      <4>1. SansUser(requetes[x].u) /\ bureaux' = bureaux
        BY <3>9 DEF SupprimerCompte, SansCompte
      <4> QED BY <1>s, <2>0, <3>7, <3>9, <4>1 DEF SupprimerCompte, Attend
    <3>10. ASSUME \/ EcrireProprietaire(x) \/ LireAdmins(x) \/ LireBureaux(x) \/ CreerCompte(x)
                  \/ CreerUser(x) \/ QuitterAilleurs(x) \/ CompterRestants(x)
           PROVE  UNCHANGED <<bureaux, organizers, manques>>
      BY <3>10 DEF EcrireProprietaire, LireAdmins, LireBureaux, CreerCompte, CreerUser,
         QuitterAilleurs, CompterRestants, lignes
    <3> QED BY <1>2, <2>3, <3>3, <3>4, <3>5, <3>6, <3>8, <3>9, <3>10 DEF Statement
  <2> QED BY <2>1, <2>2, <2>3
<1>3. CASE Immediat
  <2>1. requetes' = requetes
    BY <1>3 DEF Immediat, InviterAuBureau, AccepterAuBureau, OublierInvitation,
         QuitterBureau,
       SupprimerBureau, Inviter, Desinviter, Inscrire, SupprimerCompteAdmin, horsAdhesions
  <2>2. ASSUME b \in bureaux, b \in organizers => b \in organizers',
               <<Nul, b>> \in manques => <<Nul, b>> \in manques'
        PROVE  But
    BY <1>p, <2>1, <2>2
  <2>3. ASSUME NEW u \in User, NEW e \in Bureau, AccepterAuBureau(u, e) PROVE But
    BY <1>0, <2>2, <2>3 DEF AccepterAuBureau, horsAdhesions
  <2>4. ASSUME NEW u \in User, NEW e \in Bureau, QuitterBureau(u, e) PROVE But
    BY <1>0, <2>2, <2>4 DEF QuitterBureau, horsAdhesions
  <2>5. ASSUME NEW e \in Bureau, SupprimerBureau(e) PROVE But
    <3>1. b \in bureaux /\ b # e /\ (b \in organizers => b \in organizers')
      BY <2>5 DEF SupprimerBureau
    <3>2. <<Nul, b>> \in manques => <<Nul, b>> \in manques'
      BY <2>5, <3>1 DEF SupprimerBureau
    <3> QED BY <2>2, <3>1, <3>2
  <2>6. ASSUME NEW u \in User, SupprimerCompteAdmin(u) PROVE But
    <3>1. SansUser(u) /\ bureaux' = bureaux
      BY <2>6 DEF SupprimerCompteAdmin, SansCompte
    <3> QED BY <1>s, <2>1, <3>1
  <2>7. ASSUME NEW u \in User, \/ Inviter(u) \/ Desinviter(u) \/ Inscrire(u)
                               \/ \E e \in Bureau : InviterAuBureau(u, e) \/ OublierInvitation(u, e)
        PROVE  But
    <3>1. UNCHANGED <<bureaux, organizers, manques>>
      BY <2>7 DEF Inviter, Desinviter, Inscrire, InviterAuBureau, OublierInvitation,
           horsAdhesions
    <3> QED BY <2>2, <3>1
  <2> QED BY <1>3, <2>3, <2>4, <2>5, <2>6, <2>7 DEF Immediat
<1>4. CASE Arret
  <2>1. bureaux' = bureaux /\ organizers' = organizers /\ manques \subseteq manques'
    BY <1>4 DEF Arret, lignes
  <2>2. CASE b \in organizers \/ <<Nul, b>> \in manques
    BY <2>1, <2>2
  <2>3. ASSUME NEW x \in Requete, requetes[x].b = b PROVE But
    <3>1. Occupee(x)
      BY <1>0, <2>1, <2>3, LibreVide DEF Occupee
    <3>2. "creerOrganizer" \in Encore(requetes[x].reste)
      BY <1>0, <2>1, <2>3, <3>1, Prochain DEF Selon
    <3>3. SansOrganizer(requetes[x].b) \subseteq manques'
      BY <1>4, <3>1, <3>2, ResteEncore DEF Arret
    <3> QED BY <2>1, <2>3, <3>3 DEF SansOrganizer
  <2> QED BY <1>p, <2>1, <2>2, <2>3
<1>5. CASE UNCHANGED vars
  <2>1. UNCHANGED <<bureaux, organizers, manques, requetes>>
    BY <1>5 DEF vars
  <2> QED BY <1>p, <2>1
<1> QED BY <1>1, <1>2, <1>3, <1>4, <1>5 DEF Next

-----------------------------------------------------------------------------
(* The admins in every office.                                               *)

(* Request x is about to add u to b.                                         *)
Ajoute(x, u, b) ==
    /\ Occupee(x)
    /\ \/ requetes[x].u = u /\ "lireBureaux" \in Encore(requetes[x].reste)
       \/ requetes[x].b = b /\ "lireAdmins" \in Encore(requetes[x].reste)
       \/ <<u, b>> \in requetes[x].lu /\ "adherer" \in Encore(requetes[x].reste)

(* EnCours says that some request is about to add the person.                *)
LEMMA EnCoursAjoute ==
    ASSUME NEW u, NEW b
    PROVE  /\ EnCours(u, b) <=> \E x \in Requete : Ajoute(x, u, b)
           /\ EnCours(u, b)' <=> \E x \in Requete : Ajoute(x, u, b)'
BY ResteEncore DEF EnCours, Ajoute

(* A request none of whose statements left reads or inserts adds nobody.     *)
LEMMA SansAjout ==
    ASSUME Types, NEW x \in Requete, NEW u, NEW b,
           \A i \in {"lireBureaux", "lireAdmins", "adherer"} : i \notin Encore(requetes[x].reste)
    PROVE  ~Ajoute(x, u, b)
BY DEF Ajoute

(* A statement that neither reads nor inserts leaves what its request adds.  *)
LEMMA AjoutAvance ==
    ASSUME Types, NEW x \in Requete, NEW u, NEW b, Ajoute(x, u, b), Avance(x),
           Head(requetes[x].reste) \notin {"lireBureaux", "lireAdmins", "adherer"}
    PROVE  Ajoute(x, u, b)'
<1>1. requetes[x].lu = {}
  BY Prochain DEF Ajoute
<1>2. Engagee(requetes'[x]) /\ requetes'[x] # Libre
  BY EngageeSelon DEF Avance
<1>3. \/ requetes[x].u = u /\ "lireBureaux" \in Encore(requetes[x].reste)
      \/ requetes[x].b = b /\ "lireAdmins" \in Encore(requetes[x].reste)
  BY <1>1 DEF Ajoute
<1>4. \/ requetes'[x].u = u /\ "lireBureaux" \in Encore(requetes'[x].reste)
      \/ requetes'[x].b = b /\ "lireAdmins" \in Encore(requetes'[x].reste)
  BY <1>3 DEF Avance
<1> QED BY <1>2, <1>4 DEF Ajoute, Occupee

(* Every action keeps every admin in every office, or the exception.         *)
LEMMA AdminsPartoutStep ==
    Types /\ AdminsPartout /\ [Next]_vars => AdminsPartout'
<1> SUFFICES ASSUME Types, AdminsPartout, [Next]_vars, NEW u \in Admins', NEW b \in bureaux'
             PROVE  \/ <<u, b>> \in adhesions' \/ <<u, b>> \in manques'
                    \/ \E x \in Requete : Ajoute(x, u, b)'
  BY EnCoursAjoute DEF AdminsPartout
<1> DEFINE But == \/ <<u, b>> \in adhesions' \/ <<u, b>> \in manques'
                  \/ \E x \in Requete : Ajoute(x, u, b)'
<1>0. Nul \notin Bureau /\ Nul \notin User /\ users \subseteq User /\ bureaux \subseteq Bureau
  BY MembresAssumption DEF Bureau, Types, TypeLignes
<1>p. ASSUME u \in Admins, b \in bureaux
      PROVE  \/ <<u, b>> \in adhesions \/ <<u, b>> \in manques
             \/ \E x \in Requete : Ajoute(x, u, b)
  BY <1>p, EnCoursAjoute DEF AdminsPartout
<1>k. ASSUME NEW x \in Requete, Autres(x), u \in Admins, b \in bureaux,
             <<u, b>> \in adhesions => <<u, b>> \in adhesions',
             <<u, b>> \in manques => <<u, b>> \in manques' \/ <<u, b>> \in adhesions',
             Ajoute(x, u, b) => But
      PROVE  But
  <2>1. ASSUME NEW y \in Requete, y # x, Ajoute(y, u, b) PROVE Ajoute(y, u, b)'
    BY <1>k, <2>1 DEF Ajoute, Autres, Occupee
  <2> QED BY <1>k, <1>p, <2>1
<1>i. ASSUME requetes' = requetes, u \in Admins, b \in bureaux,
             <<u, b>> \in adhesions => <<u, b>> \in adhesions' \/ <<u, b>> \in manques',
             <<u, b>> \in manques => <<u, b>> \in manques' \/ <<u, b>> \in adhesions'
      PROVE  But
  <2>1. ASSUME NEW y \in Requete, Ajoute(y, u, b) PROVE Ajoute(y, u, b)'
    BY <1>i, <2>1 DEF Ajoute, Occupee
  <2> QED BY <1>i, <1>p, <2>1
<1>s. ASSUME NEW v \in User, SansUser(v)
      PROVE  /\ u \in Admins /\ u # v
             /\ <<u, b>> \in adhesions => <<u, b>> \in adhesions'
             /\ <<u, b>> \in manques => <<u, b>> \in manques'
  <2>1. u \in users /\ u # v /\ role'[u] = role[u] /\ u \in User
    BY <1>0, <1>s DEF SansUser, Admins, Types, TypeLignes
  <2>2. u \in Admins
    BY <2>1 DEF Admins
  <2> QED BY <1>s, <2>1, <2>2 DEF SansUser
<1>1. ASSUME NEW x \in Requete, Recevoir(x) PROVE But
  <2>1. /\ UNCHANGED <<users, role, bureaux, adhesions, manques>> /\ Autres(x) /\ ~Occupee(x)
    BY <1>1, EffetCharger DEF Recevoir, Charger, lignes
  <2>2. u \in Admins /\ ~Ajoute(x, u, b)
    BY <2>1 DEF Admins, Ajoute
  <2> QED BY <1>k, <2>1, <2>2
<1>2. ASSUME NEW x \in Requete, Statement(x) PROVE But
  <2>0. Autres(x) /\ Occupee(x)
    BY <1>2, EffetStatement
  <2> DEFINE suite == Encore(requetes[x].reste)
             lectures == {"lireBureaux", "lireAdmins", "adherer"}
  <2>s. Selon(requetes[x].op, Head(requetes[x].reste), suite)
    BY <2>0, Prochain
  <2>1. CASE EcrireRole(x)
    <3>1. /\ bureaux' = bureaux /\ adhesions' = adhesions /\ users' = users
          /\ Head(requetes[x].reste) = "ecrireRole"
      BY <2>1 DEF EcrireRole, Attend
    <3>2. requetes[x].u \in User /\ requetes[x].b = Nul /\ requetes[x].lu = {}
          /\ "lireAdmins" \notin suite
      BY <2>0, <2>s, <3>1, Prochain DEF Selon
    <3>3. CASE u # requetes[x].u
      <4>1. u \in Admins /\ (<<u, b>> \in manques => <<u, b>> \in manques')
        BY <1>0, <2>1, <3>1, <3>2, <3>3 DEF EcrireRole, Admins, Types, TypeLignes
      <4>2. ~Ajoute(x, u, b)
        BY <1>0, <3>1, <3>2, <3>3 DEF Ajoute
      <4> QED BY <1>k, <2>0, <3>1, <4>1, <4>2
    <3>4. CASE u = requetes[x].u
      <4>1. u \in users /\ role'[u] = "ADMIN"
        BY <3>1, <3>4 DEF Admins
      <4>2. role'[u] = requetes[x].r /\ Poursuivre(x)
        BY <2>1, <3>2, <3>4, <4>1 DEF EcrireRole, Types, TypeLignes
      <4>3. requetes[x].op \in {"promouvoir", "transfererPromu"}
        <5>1. requetes[x].op # "changerRole"
          BY <2>0, <4>1, <4>2, Prochain DEF Engagee
        <5> QED BY <2>s, <3>1, <5>1 DEF Selon
      <4>4. suite = {"ecrireRole", "lireBureaux", "adherer"}
        BY <2>s, <3>1, <4>3 DEF Selon
      <4>5. Avance(x)
        BY <2>0, <3>1, <4>2, <4>4, EffetPoursuivre
      <4>6. "lireBureaux" \in Encore(requetes'[x].reste) /\ requetes'[x].u = u
        BY <3>1, <3>4, <4>4, <4>5 DEF Avance
      <4>7. requetes'[x] # Libre
        BY <4>5, EngageeSelon DEF Avance
      <4> QED BY <4>6, <4>7 DEF Ajoute, Occupee
    <3> QED BY <3>3, <3>4
  <2>2. CASE EcrireProprietaire(x)
    <3>1. /\ Head(requetes[x].reste) = "ecrireProprietaire" /\ Poursuivre(x)
          /\ UNCHANGED <<users, role, bureaux, adhesions, manques>>
      BY <2>2 DEF EcrireProprietaire, Attend
    <3>2. u \in Admins
      BY <3>1 DEF Admins
    <3>3. ASSUME Ajoute(x, u, b) PROVE But
      <4>1. CASE Avance(x)
        BY <3>1, <3>3, <4>1, AjoutAvance
      <4>2. CASE suite = {Head(requetes[x].reste)}
        BY <3>1, <3>3, <4>2, SansAjout
      <4> QED BY <2>0, <3>1, <4>1, <4>2, EffetPoursuivre
    <3> QED BY <1>k, <2>0, <3>1, <3>2, <3>3
  <2>3. CASE CreerBureau(x)
    <3>1. /\ Head(requetes[x].reste) = "creerBureau" /\ Poursuivre(x)
          /\ UNCHANGED <<users, role, adhesions, manques>> /\ bureaux' = bureaux \cup {requetes[x].b}
      BY <2>3 DEF CreerBureau, Attend
    <3>2. suite = {"creerBureau", "lireAdmins", "adherer", "creerOrganizer"}
      BY <2>s, <3>1 DEF Selon
    <3>3. Avance(x)
      BY <2>0, <3>1, <3>2, EffetPoursuivre
    <3>4. CASE b = requetes[x].b
      <4>1. "lireAdmins" \in Encore(requetes'[x].reste) /\ requetes'[x].b = b
        BY <3>1, <3>2, <3>3, <3>4 DEF Avance
      <4>2. requetes'[x] # Libre
        BY <3>3, EngageeSelon DEF Avance
      <4> QED BY <4>1, <4>2 DEF Ajoute, Occupee
    <3>5. CASE b # requetes[x].b
      <4>1. u \in Admins /\ b \in bureaux
        BY <3>1, <3>5 DEF Admins
      <4>2. Ajoute(x, u, b) => But
        BY <3>1, <3>3, AjoutAvance
      <4> QED BY <1>k, <2>0, <3>1, <4>1, <4>2
    <3> QED BY <3>4, <3>5
  <2>4. CASE LireAdmins(x)
    <3>1. UNCHANGED <<users, role, bureaux, adhesions, manques>> /\ Head(requetes[x].reste) = "lireAdmins"
      BY <2>4 DEF LireAdmins, lignes, Attend
    <3>2. u \in Admins
      BY <3>1 DEF Admins
    <3>3. ASSUME Ajoute(x, u, b) PROVE Ajoute(x, u, b)'
      <4>1. requetes[x].lu = {} /\ "lireBureaux" \notin suite
        BY <2>0, <2>s, <3>1, Prochain DEF Selon
      <4>2. requetes[x].b = b
        BY <3>3, <4>1 DEF Ajoute
      <4>3. <<u, b>> \in requetes'[x].lu /\ "adherer" \in Encore(requetes'[x].reste)
        BY <2>4, <3>2, <4>2, EffetLireAdmins
      <4>4. requetes'[x] # Libre
        BY <2>4, EffetLireAdmins, EngageeSelon DEF Avance
      <4> QED BY <4>3, <4>4 DEF Ajoute, Occupee
    <3> QED BY <1>k, <2>0, <3>1, <3>2, <3>3
  <2>5. CASE LireBureaux(x)
    <3>1. UNCHANGED <<users, role, bureaux, adhesions, manques>> /\ Head(requetes[x].reste) = "lireBureaux"
      BY <2>5 DEF LireBureaux, lignes, Attend
    <3>2. u \in Admins
      BY <3>1 DEF Admins
    <3>3. ASSUME Ajoute(x, u, b) PROVE Ajoute(x, u, b)'
      <4>1. requetes[x].lu = {} /\ "lireAdmins" \notin suite
        BY <2>0, <2>s, <3>1, Prochain DEF Selon
      <4>2. requetes[x].u = u
        BY <3>3, <4>1 DEF Ajoute
      <4>3. <<u, b>> \in requetes'[x].lu /\ "adherer" \in Encore(requetes'[x].reste)
        BY <2>5, <3>1, <4>2, EffetLireBureaux
      <4>4. requetes'[x] # Libre
        BY <2>5, EffetLireBureaux, EngageeSelon DEF Avance
      <4> QED BY <4>3, <4>4 DEF Ajoute, Occupee
    <3> QED BY <1>k, <2>0, <3>1, <3>2, <3>3
  <2>6. CASE Adherer(x)
    <3>1. UNCHANGED <<users, role, bureaux>> /\ Head(requetes[x].reste) = "adherer"
      BY <2>6 DEF Adherer, Attend
    <3>2. u \in Admins
      BY <3>1 DEF Admins
    <3>3. ASSUME Ajoute(x, u, b) PROVE <<u, b>> \in requetes[x].lu
      BY <2>s, <3>1, <3>3 DEF Selon, Ajoute
    <3>4. <<u, b>> \in adhesions => <<u, b>> \in adhesions'
      BY <2>6 DEF Adherer
    <3>5. <<u, b>> \in manques => <<u, b>> \in manques' \/ <<u, b>> \in adhesions'
      BY <2>6 DEF Adherer
    <3>6. <<u, b>> \in requetes[x].lu => <<u, b>> \in manques' \/ <<u, b>> \in adhesions'
      BY <2>6, <3>1, <3>2 DEF Adherer
    <3> QED BY <1>k, <2>0, <3>1, <3>2, <3>3, <3>4, <3>5, <3>6
  <2>7. ASSUME Head(requetes[x].reste) \in {"creerOrganizer", "creerCompte", "creerUser",
                 "creerPersonnel", "supprimerUser", "quitterAilleurs", "compterRestants",
                 "supprimerCompte"}
        PROVE  ~Ajoute(x, u, b)
    <3>1. \A i \in lectures : i \notin suite
      BY <2>s, <2>7 DEF Selon
    <3> QED BY <3>1, SansAjout
  <2>8. ASSUME UNCHANGED <<users, role, bureaux, adhesions>>, manques \subseteq manques',
               ~Ajoute(x, u, b)
        PROVE  But
    <3>1. u \in Admins
      BY <2>8 DEF Admins
    <3> QED BY <1>k, <2>0, <2>8, <3>1
  <2>9. CASE \/ CreerOrganizer(x) \/ CreerCompte(x) \/ CreerPersonnel(x) \/ QuitterAilleurs(x)
             \/ CompterRestants(x)
    BY <2>7, <2>8, <2>9 DEF CreerOrganizer, CreerCompte, CreerPersonnel, QuitterAilleurs,
       CompterRestants, lignes, Attend
  <2>10. CASE CreerUser(x)
    <3>1. /\ UNCHANGED <<bureaux, adhesions, manques>>
          /\ \/ UNCHANGED <<users, role>>
             \/ /\ users' = users \cup {requetes[x].u}
                /\ role' = [role EXCEPT ![requetes[x].u] = requetes[x].r]
          /\ Head(requetes[x].reste) = "creerUser"
      BY <2>10 DEF CreerUser, Attend
    <3>2. requetes[x].u \in User /\ requetes[x].r # "ADMIN"
      BY <2>0, <2>s, <3>1, Prochain DEF Selon, Engagee
    <3>3. u \in Admins
      BY <3>1, <3>2 DEF Admins, Types, TypeLignes
    <3> QED BY <1>k, <2>0, <2>7, <3>1, <3>3
  <2>11. CASE SupprimerUser(x)
    <3>1. Head(requetes[x].reste) = "supprimerUser"
      BY <2>11 DEF SupprimerUser, Attend
    <3>2. requetes[x].u \in User
      BY <2>0, <2>s, <3>1, Prochain DEF Selon
    <3>3. CASE requetes[x].u \in users
      <4>1. SansUser(requetes[x].u) /\ bureaux' = bureaux
        BY <2>11, <3>3 DEF SupprimerUser
      <4> QED BY <1>k, <1>s, <2>0, <2>7, <3>1, <3>2, <4>1
    <3>4. CASE requetes[x].u \notin users
      BY <2>7, <2>8, <2>11, <3>1, <3>4 DEF SupprimerUser
    <3> QED BY <3>3, <3>4
  <2>12. CASE SupprimerCompte(x)
    <3>1. /\ Head(requetes[x].reste) = "supprimerCompte" /\ SansUser(requetes[x].u)
          /\ bureaux' = bureaux
      BY <2>12 DEF SupprimerCompte, SansCompte, Attend
    <3>2. requetes[x].u \in User
      BY <2>0, <2>s, <3>1, Prochain DEF Selon
    <3> QED BY <1>k, <1>s, <2>0, <2>7, <3>1, <3>2
  <2> QED BY <1>2, <2>1, <2>2, <2>3, <2>4, <2>5, <2>6, <2>9, <2>10, <2>11, <2>12
       DEF Statement
<1>3. CASE Immediat
  <2>1. requetes' = requetes
    BY <1>3 DEF Immediat, InviterAuBureau, AccepterAuBureau, OublierInvitation,
         QuitterBureau,
       SupprimerBureau, Inviter, Desinviter, Inscrire, SupprimerCompteAdmin, horsAdhesions
  <2>2. ASSUME users' = users, role' = role PROVE u \in Admins
    BY <2>2 DEF Admins
  <2>3. ASSUME NEW v \in User, NEW e \in Bureau, AccepterAuBureau(v, e) PROVE But
    BY <1>i, <2>1, <2>2, <2>3 DEF AccepterAuBureau, horsAdhesions
  <2>4. ASSUME NEW v \in User, NEW e \in Bureau, QuitterBureau(v, e) PROVE But
    BY <1>i, <2>1, <2>2, <2>4 DEF QuitterBureau, horsAdhesions
  <2>5. ASSUME NEW e \in Bureau, SupprimerBureau(e) PROVE But
    <3>1. b \in bureaux /\ b # e /\ u \in Admins
      BY <2>2, <2>5 DEF SupprimerBureau
    <3>2. /\ <<u, b>> \in adhesions => <<u, b>> \in adhesions'
          /\ <<u, b>> \in manques => <<u, b>> \in manques'
      BY <2>5, <3>1 DEF SupprimerBureau
    <3> QED BY <1>i, <2>1, <3>1, <3>2
  <2>6. ASSUME NEW v \in User, SupprimerCompteAdmin(v) PROVE But
    <3>1. SansUser(v) /\ bureaux' = bureaux
      BY <2>6 DEF SupprimerCompteAdmin, SansCompte
    <3> QED BY <1>i, <1>s, <2>1, <3>1
  <2>7. ASSUME NEW v \in User, \/ Inviter(v) \/ Desinviter(v) \/ Inscrire(v)
                               \/ \E e \in Bureau : InviterAuBureau(v, e) \/ OublierInvitation(v, e)
        PROVE  But
    <3>1. UNCHANGED <<users, role, bureaux, adhesions, manques>>
      BY <2>7 DEF Inviter, Desinviter, Inscrire, InviterAuBureau, OublierInvitation,
           horsAdhesions
    <3> QED BY <1>i, <2>1, <2>2, <3>1
  <2> QED BY <1>3, <2>3, <2>4, <2>5, <2>6, <2>7 DEF Immediat
<1>4. CASE Arret
  <2>1. UNCHANGED <<users, role, bureaux, adhesions>> /\ manques \subseteq manques'
    BY <1>4 DEF Arret, lignes
  <2>2. u \in Admins /\ b \in bureaux
    BY <2>1 DEF Admins
  <2>3. ASSUME NEW x \in Requete, Ajoute(x, u, b) PROVE <<u, b>> \in manques'
    <3>1. Occupee(x)
      BY <2>3 DEF Ajoute
    <3>2. CASE requetes[x].u = u /\ Reste(x, "lireBureaux")
      <4>1. ({requetes[x].u} \cap Admins) \X bureaux \subseteq manques'
        BY <1>4, <3>1, <3>2 DEF Arret
      <4> QED BY <2>2, <3>2, <4>1
    <3>3. CASE requetes[x].b = b /\ Reste(x, "lireAdmins")
      <4>1. Admins \X ({requetes[x].b} \cap bureaux) \subseteq manques'
        BY <1>4, <3>1, <3>3 DEF Arret
      <4> QED BY <2>2, <3>3, <4>1
    <3>4. CASE <<u, b>> \in requetes[x].lu
      <4>1. requetes[x].lu \cap (Admins \X bureaux) \subseteq manques'
        BY <1>4, <3>1 DEF Arret
      <4> QED BY <2>2, <3>4, <4>1
    <3> QED BY <2>3, <3>2, <3>3, <3>4, ResteEncore DEF Ajoute
  <2> QED BY <1>p, <2>1, <2>2, <2>3
<1>5. CASE UNCHANGED vars
  <2>1. UNCHANGED <<users, role, bureaux, adhesions, manques, requetes>>
    BY <1>5 DEF vars
  <2> QED BY <1>i, <2>1 DEF Admins
<1> QED BY <1>1, <1>2, <1>3, <1>4, <1>5 DEF Next

(* Whatever requests overlap or are cut short: every admin is a member of    *)
(* every office, is about to be, or was left out on purpose or by a request  *)
(* cut short; every office has its Organizer or is such an exception; and    *)
(* there are never more offices than the limit and one less than the         *)
(* requests (bureaux.create(), updateRoleGlobal(), ajouterAdmin*()).         *)
THEOREM BureauxEnRegleCorrect == Spec => []BureauxEnRegle
<1>1. Init => Types /\ BureauxEnRegle
  <2> SUFFICES ASSUME Init PROVE Types /\ BureauxEnRegle
    OBVIOUS
  <2>1. AdminsPartout /\ OrganizerPresent
    BY DEF Init, AdminsPartout, OrganizerPresent
  <2> QED BY <2>1, TypesInit, BureauxBornesInit DEF BureauxEnRegle
<1>2. Types /\ BureauxEnRegle /\ [Next]_vars => Types' /\ BureauxEnRegle'
  BY TypesStep, BureauxBornesStep, OrganizerPresentStep, AdminsPartoutStep
       DEF BureauxEnRegle
<1> QED BY <1>1, <1>2, PTL DEF Spec

-----------------------------------------------------------------------------
(* The owner.                                                                *)

(* A request that ends or goes on keeps its operation and its person, and    *)
(* begins nothing: what holds of all requests in hand still does.            *)
LEMMA EnMainAvant ==
    ASSUME Types, NEW x \in Requete, Autres(x), Finit(x) \/ Avance(x),
           NEW y \in Requete, Occupee(y)'
    PROVE  /\ Occupee(y) /\ requetes'[y].op = requetes[y].op /\ requetes'[y].u = requetes[y].u
           /\ Encore(requetes'[y].reste) \subseteq Encore(requetes[y].reste)
           /\ y = x => Head(requetes[x].reste) \notin Encore(requetes'[x].reste)
<1>1. CASE y = x
  <2>1. Avance(x)
    BY <1>1 DEF Finit, Occupee
  <2>2. Occupee(x)
    <3>1. requetes[x] \in EnMain \cup {Libre}
      BY DEF Types, TypeRequetes
    <3>2. requetes[x].op \in Operation
      BY <2>1, EngageeSelon DEF Avance
    <3>3. requetes[x] # Libre
      BY <3>2, LibreVide, Operations
    <3> QED BY <3>3 DEF Occupee
  <2> QED BY <1>1, <2>1, <2>2 DEF Avance
<1>2. CASE y # x
  BY <1>2 DEF Autres, Occupee
<1> QED BY <1>1, <1>2

(* Who is in hand against whom, before and after a statement.                *)
LEMMA AutoriteStatement ==
    ASSUME Types, ProprietaireTenu, NEW x \in Requete, Statement(x), ~croise'
    PROVE  /\ ProprietaireMembre' /\ TransfertSeul' /\ AutresCibles'
           /\ HeritierMembre' /\ ProprietaireAdmin'
<1>0. Autres(x) /\ Occupee(x) /\ (Finit(x) \/ Avance(x))
  BY EffetStatement
<1>1. ~croise
  BY DEF Statement, EcrireRole, EcrireProprietaire, CreerBureau, LireAdmins, LireBureaux,
       Adherer,
     CreerOrganizer, CreerCompte, CreerUser, CreerPersonnel, SupprimerUser, QuitterAilleurs,
     CompterRestants, SupprimerCompte
<1>2. ProprietaireMembre /\ TransfertSeul /\ AutresCibles /\ HeritierMembre /\ ProprietaireAdmin
  BY <1>1 DEF ProprietaireTenu
<1> DEFINE q == requetes[x]
<1>s. Selon(q.op, Head(q.reste), Encore(q.reste)) /\ Engagee(q)
  BY <1>0, Prochain
<1>t. proprietaire \in User /\ role \in [User -> RoleGlobal] /\ users \subseteq User
  BY DEF Types, TypeLignes
<1>a. ASSUME NEW y \in Requete, Occupee(y)'
      PROVE  /\ Occupee(y) /\ requetes'[y].op = requetes[y].op /\ requetes'[y].u = requetes[y].u
             /\ Encore(requetes'[y].reste) \subseteq Encore(requetes[y].reste)
             /\ y = x => Head(q.reste) \notin Encore(requetes'[x].reste)
  BY <1>0, <1>a, EnMainAvant
<1>3. TransfertSeul'
  <2>1. ASSUME NEW y \in Requete, NEW z \in Requete, Occupee(y)', Occupee(z)', y # z,
               requetes'[y].op \in Transferts
        PROVE  ~Concerne(requetes'[z].op)
    BY <1>2, <1>a, <2>1 DEF TransfertSeul
  <2> QED BY <2>1 DEF TransfertSeul
(* The rows and the column a statement leaves alone.                         *)
<1>4. ASSUME proprietaire' = proprietaire, proprietaire \in users',
             \A u \in users : u \in users' \/ ~\E y \in Requete :
                Occupee(y)' /\ requetes'[y].u = u /\ requetes'[y].op \in Transferts,
             \A u \in users : role[u] = "ADMIN" => role'[u] = "ADMIN" \/
                (u # proprietaire /\ ~\E y \in Requete :
                    Occupee(y)' /\ requetes'[y].u = u /\ requetes'[y].op = "transferer"),
             Head(q.reste) = "ecrireRole" /\ q.u = proprietaire => role'[proprietaire] = "ADMIN"
      PROVE  /\ ProprietaireMembre' /\ AutresCibles' /\ HeritierMembre' /\ ProprietaireAdmin'
  <2>1. AutresCibles'
    <3>1. ASSUME NEW y \in Requete, Occupee(y)', requetes'[y].op \in {"changerRole", "retirer"}
          PROVE  requetes'[y].u # proprietaire'
      BY <1>2, <1>4, <1>a, <3>1 DEF AutresCibles
    <3> QED BY <3>1 DEF AutresCibles
  <2>2. HeritierMembre'
    <3>1. ASSUME NEW y \in Requete, Occupee(y)', "ecrireProprietaire" \in Encore(requetes'[y].reste)
          PROVE  /\ requetes'[y].u \in users'
                 /\ requetes'[y].op = "transferer" => role'[requetes'[y].u] = "ADMIN"
      <4>1. /\ Occupee(y) /\ "ecrireProprietaire" \in Encore(requetes[y].reste)
            /\ requetes'[y].op = requetes[y].op /\ requetes'[y].u = requetes[y].u
        BY <1>a, <3>1
      <4>2. /\ requetes[y].u \in users
            /\ requetes[y].op = "transferer" => role[requetes[y].u] = "ADMIN"
        BY <1>2, <4>1, ResteEncore DEF HeritierMembre
      <4>3. requetes[y].op \in Transferts
        <5>1. Selon(requetes[y].op, Head(requetes[y].reste), Encore(requetes[y].reste))
          BY <4>1, Prochain
        <5> QED BY ONLY <4>1, <5>1 DEF Selon, Transferts
      <4> QED BY <1>4, <3>1, <4>1, <4>2, <4>3
    <3> QED BY <3>1, ResteEncore DEF HeritierMembre
  <2>3. ProprietaireAdmin'
    <3>1. CASE role[proprietaire] = "ADMIN"
      <4>1. role'[proprietaire] = "ADMIN"
        BY <1>2, <1>4, <3>1 DEF ProprietaireMembre
      <4> QED BY <1>4, <4>1 DEF ProprietaireAdmin
    <3>2. ASSUME NEW y \in Requete, Occupee(y), requetes[y].op = "transfererPromu",
                 requetes[y].u = proprietaire, "ecrireRole" \in Encore(requetes[y].reste)
          PROVE  ProprietaireAdmin'
      <4>1. CASE y # x
        <5>1. requetes'[y] = requetes[y]
          BY <1>0, <4>1 DEF Autres
        <5> QED BY <1>4, <3>2, <5>1, ResteEncore DEF ProprietaireAdmin, Occupee
      <4>2. CASE y = x /\ Head(q.reste) = "ecrireRole"
        BY <1>4, <3>2, <4>2 DEF ProprietaireAdmin
      <4>3. CASE y = x /\ Head(q.reste) # "ecrireRole"
        <5>1. Head(q.reste) = "ecrireProprietaire"
          BY <1>s, <3>2, <4>3 DEF Selon
        <5>2. EcrireProprietaire(x)
          BY <5>1 DEF Statement, Attend, EcrireRole, CreerBureau, LireAdmins, LireBureaux,
               Adherer,
             CreerOrganizer, CreerCompte, CreerUser, CreerPersonnel, SupprimerUser,
             QuitterAilleurs, CompterRestants, SupprimerCompte
        <5>3. Avance(x)
          BY <1>0, <1>s, <3>2, <4>3, <5>1, <5>2, EffetPoursuivre DEF EcrireProprietaire
        <5>4. /\ Occupee(x)' /\ requetes'[x].op = "transfererPromu"
              /\ requetes'[x].u = proprietaire /\ "ecrireRole" \in Encore(requetes'[x].reste)
          BY <3>2, <4>3, <5>3, EngageeSelon DEF Avance, Occupee
        <5> QED BY <1>4, <5>4, ResteEncore DEF ProprietaireAdmin
      <4> QED BY <4>1, <4>2, <4>3
    <3> QED BY <1>2, <3>1, <3>2, ResteEncore DEF ProprietaireAdmin
  <2> QED BY <1>4, <2>1, <2>2, <2>3 DEF ProprietaireMembre
(* No transfer is in hand while a removal, a demotion or a promotion is.     *)
<1>5. ASSUME Concerne(q.op), NEW y \in Requete, Occupee(y)', requetes'[y].op \in Transferts
      PROVE  y = x
  BY <1>0, <1>2, <1>5, <1>a DEF TransfertSeul
<1>6. CASE EcrireProprietaire(x)
  <2>1. /\ Head(q.reste) = "ecrireProprietaire" /\ Poursuivre(x) /\ proprietaire' = q.u
        /\ UNCHANGED <<users, role>>
    BY <1>6 DEF EcrireProprietaire, Attend
  <2>2. q.op \in Transferts /\ "ecrireProprietaire" \in Encore(q.reste)
    BY <1>s, <2>1 DEF Selon, Transferts
  <2>3. q.u \in users /\ (q.op = "transferer" => role[q.u] = "ADMIN")
    BY <1>0, <1>2, <2>2, ResteEncore DEF HeritierMembre
  <2>4. ASSUME NEW y \in Requete, Occupee(y)', Concerne(requetes'[y].op) PROVE y = x
    BY <1>0, <1>2, <1>a, <2>2, <2>4 DEF TransfertSeul
  <2>5. AutresCibles'
    <3>1. ASSUME NEW y \in Requete, Occupee(y)', requetes'[y].op \in {"changerRole", "retirer"}
          PROVE  FALSE
      <4>1. y = x
        BY <2>4, <3>1 DEF Concerne
      <4>2. requetes'[x].op = q.op
        BY <1>a, <3>1, <4>1
      <4> QED BY <2>2, <3>1, <4>1, <4>2 DEF Transferts
    <3> QED BY <3>1 DEF AutresCibles
  <2>6. HeritierMembre'
    <3>1. ASSUME NEW y \in Requete, Occupee(y)', "ecrireProprietaire" \in Encore(requetes'[y].reste)
          PROVE  FALSE
      <4>1. Occupee(y) /\ "ecrireProprietaire" \in Encore(requetes[y].reste)
            /\ requetes'[y].op = requetes[y].op
        BY <1>a, <3>1
      <4>2. requetes[y].op \in Transferts
        <5>1. Selon(requetes[y].op, Head(requetes[y].reste), Encore(requetes[y].reste))
          BY <1>0, <4>1, Prochain
        <5> QED BY ONLY <4>1, <5>1 DEF Selon, Transferts
      <4>3. y = x
        BY <2>4, <3>1, <4>1, <4>2 DEF Concerne
      <4> QED BY <1>a, <2>1, <3>1, <4>3
    <3> QED BY <3>1, ResteEncore DEF HeritierMembre
  <2>7. ProprietaireAdmin'
    <3>1. CASE q.op = "transferer"
      BY <2>1, <2>3, <3>1 DEF ProprietaireAdmin
    <3>2. CASE q.op # "transferer"
      <4>1. /\ q.op = "transfererPromu"
            /\ Encore(q.reste) = {"ecrireProprietaire", "ecrireRole", "lireBureaux", "adherer"}
        BY <1>s, <2>1, <3>2 DEF Selon
      <4>2. Avance(x)
        BY <1>0, <2>1, <4>1, EffetPoursuivre
      <4>3. /\ Occupee(x)' /\ requetes'[x].op = "transfererPromu"
            /\ requetes'[x].u = proprietaire' /\ "ecrireRole" \in Encore(requetes'[x].reste)
        BY <2>1, <4>1, <4>2, EngageeSelon DEF Avance, Occupee
      <4> QED BY <4>3, ResteEncore DEF ProprietaireAdmin
    <3> QED BY <3>1, <3>2
  <2> QED BY <1>3, <2>1, <2>3, <2>5, <2>6, <2>7 DEF ProprietaireMembre
<1>7. CASE EcrireRole(x)
  <2>1. /\ Head(q.reste) = "ecrireRole" /\ UNCHANGED <<users, proprietaire>>
        /\ \/ q.u \in users /\ role' = [role EXCEPT ![q.u] = q.r]
           \/ q.u \notin users /\ role' = role
    BY <1>7 DEF EcrireRole, Attend
  <2>2. /\ Concerne(q.op) /\ q.op # "transferer"
        /\ q.r = "ADMIN" \/ q.op = "changerRole"
    BY <1>s, <2>1 DEF Selon, Concerne, Transferts, Engagee
  <2>3. q.u = proprietaire => role'[proprietaire] = "ADMIN"
    BY <1>0, <1>2, <1>t, <2>1, <2>2 DEF AutresCibles, ProprietaireMembre
  <2>4. ASSUME NEW u \in users, role[u] = "ADMIN", role'[u] # "ADMIN"
        PROVE  u # proprietaire /\ ~\E y \in Requete :
                  Occupee(y)' /\ requetes'[y].u = u /\ requetes'[y].op = "transferer"
    <3>1. u = q.u /\ u # proprietaire
      BY <1>t, <2>1, <2>3, <2>4
    <3>2. ASSUME NEW y \in Requete, Occupee(y)', requetes'[y].op = "transferer" PROVE FALSE
      <4>1. y = x
        BY <1>5, <2>2, <3>2 DEF Transferts
      <4> QED BY <1>a, <2>2, <3>2, <4>1
    <3> QED BY <3>1, <3>2
  <2> QED BY <1>2, <1>3, <1>4, <2>1, <2>3, <2>4 DEF ProprietaireMembre
(* A person leaves: neither the owner nor who is about to become so.         *)
<1>8. ASSUME SansUser(q.u), q.u # proprietaire, q.u \in User, proprietaire' = proprietaire,
             Concerne(q.op), q.op \notin Transferts
      PROVE  /\ ProprietaireMembre' /\ AutresCibles' /\ HeritierMembre' /\ ProprietaireAdmin'
  <2>1. ASSUME NEW y \in Requete, Occupee(y)', requetes'[y].op \in Transferts PROVE FALSE
    <3>1. y = x
      BY <1>5, <1>8, <2>1
    <3> QED BY <1>8, <1>a, <2>1, <3>1
  <2>2. Head(q.reste) # "ecrireRole" \/ q.u # proprietaire
    BY <1>8
  <2>3. proprietaire \in users' /\ \A u \in users : u \in users' \/ u = q.u
    BY <1>2, <1>8 DEF SansUser, ProprietaireMembre
  <2>4. \A u \in users : role[u] = "ADMIN" => role'[u] = "ADMIN" \/ u = q.u
    BY <1>t, <1>8 DEF SansUser
  <2> QED BY <1>4, <1>8, <2>1, <2>2, <2>3, <2>4 DEF Transferts
<1>9. CASE SupprimerUser(x)
  <2>1. Head(q.reste) = "supprimerUser" /\ proprietaire' = proprietaire
    BY <1>9 DEF SupprimerUser, Attend
  <2>2. q.op = "retirer" /\ Concerne(q.op) /\ q.op \notin Transferts /\ q.u \in User
    BY <1>s, <2>1 DEF Selon, Concerne, Transferts, Engagee
  <2>3. q.u # proprietaire
    BY <1>0, <1>2, <2>2 DEF AutresCibles
  <2>4. CASE q.u \in users
    BY <1>3, <1>8, <1>9, <2>1, <2>2, <2>3, <2>4 DEF SupprimerUser
  <2>5. CASE q.u \notin users
    BY <1>2, <1>3, <1>4, <1>9, <2>1, <2>3, <2>5 DEF SupprimerUser, ProprietaireMembre
  <2> QED BY <2>4, <2>5
<1>10. CASE SupprimerCompte(x)
  <2>1. /\ Head(q.reste) = "supprimerCompte" /\ proprietaire' = proprietaire
        /\ SansUser(q.u) /\ q.u # proprietaire
    BY <1>10 DEF SupprimerCompte, SansCompte, Attend
  <2>2. Concerne(q.op) /\ q.op \notin Transferts /\ q.u \in User
    BY <1>s, <2>1 DEF Selon, Concerne, Transferts, Engagee
  <2> QED BY <1>3, <1>8, <2>1, <2>2
<1>11. CASE CreerUser(x)
  <2>1. /\ Head(q.reste) = "creerUser" /\ proprietaire' = proprietaire
        /\ \/ UNCHANGED <<users, role>>
           \/ /\ q.u \notin users /\ users' = users \cup {q.u}
              /\ role' = [role EXCEPT ![q.u] = q.r]
    BY <1>11 DEF CreerUser, Attend
  <2>2. proprietaire \in users' /\ \A u \in users : u \in users' /\ role'[u] = role[u]
    BY <1>2, <1>t, <2>1 DEF ProprietaireMembre
  <2> QED BY <1>3, <1>4, <2>1, <2>2
<1>12. ASSUME UNCHANGED <<users, role, proprietaire>>, Head(q.reste) # "ecrireRole"
       PROVE  /\ ProprietaireMembre' /\ AutresCibles' /\ HeritierMembre' /\ ProprietaireAdmin'
  BY <1>2, <1>4, <1>12 DEF ProprietaireMembre
<1>13. CASE \/ CreerBureau(x) \/ LireAdmins(x) \/ LireBureaux(x) \/ Adherer(x) \/ CreerOrganizer(x)
            \/ CreerCompte(x) \/ CreerPersonnel(x) \/ QuitterAilleurs(x) \/ CompterRestants(x)
  <2>1. UNCHANGED <<users, role, proprietaire>> /\ Head(q.reste) # "ecrireRole"
    BY <1>13 DEF CreerBureau, LireAdmins, LireBureaux, Adherer, CreerOrganizer, CreerCompte,
       CreerPersonnel, QuitterAilleurs, CompterRestants, lignes, Attend
  <2> QED BY <1>3, <1>12, <2>1
<1> QED BY <1>6, <1>7, <1>9, <1>10, <1>11, <1>13 DEF Statement

(* Every action keeps the authority of the owner.                            *)
LEMMA AutoriteStep ==
    Types /\ ProprietaireTenu /\ [Next]_vars => ProprietaireTenu'
<1> SUFFICES ASSUME Types, ProprietaireTenu, [Next]_vars, ~croise'
             PROVE  /\ ProprietaireMembre' /\ TransfertSeul' /\ AutresCibles'
                    /\ HeritierMembre' /\ ProprietaireAdmin'
  BY DEF ProprietaireTenu
<1> DEFINE But == /\ ProprietaireMembre' /\ TransfertSeul' /\ AutresCibles'
                  /\ HeritierMembre' /\ ProprietaireAdmin'
<1>a. ASSUME ~croise
      PROVE  /\ ProprietaireMembre /\ TransfertSeul /\ AutresCibles
             /\ HeritierMembre /\ ProprietaireAdmin
  BY <1>a DEF ProprietaireTenu
<1>u. ASSUME UNCHANGED <<users, role, proprietaire, requetes, croise>> PROVE But
  BY <1>a, <1>u, ResteEncore DEF ProprietaireMembre, TransfertSeul, AutresCibles,
       HeritierMembre,
     ProprietaireAdmin, Occupee
<1>1. ASSUME NEW x \in Requete, NEW op \in Operation, NEW u \in User \cup {Nul},
             NEW r \in RoleGlobal \cup {Nul}, NEW b \in Bureau \cup {Nul}, Charger(x, op, u, r, b)
      PROVE  But
  <2>1. /\ UNCHANGED <<users, role, proprietaire>> /\ ~Rencontre(op) /\ ~croise
        /\ Convient(op, u, r, b)
    BY <1>1 DEF Charger, lignes, Permise
  <2>2. /\ ~Occupee(x) /\ Autres(x) /\ Engagee(requetes'[x])
        /\ requetes'[x].op = op /\ requetes'[x].u = u
    BY <1>1, EffetCharger
  <2>3. ProprietaireMembre /\ TransfertSeul /\ AutresCibles /\ HeritierMembre /\ ProprietaireAdmin
    BY <1>a, <2>1
  <2>4. ASSUME NEW y \in Requete, y # x PROVE requetes'[y] = requetes[y] /\ Occupee(y)' = Occupee(y)
    BY <2>2, <2>4 DEF Autres, Occupee
  <2>5. TransfertSeul'
    <3>1. ASSUME NEW y \in Requete, NEW z \in Requete, Occupee(y)', Occupee(z)', y # z,
                 requetes'[y].op \in Transferts
          PROVE  ~Concerne(requetes'[z].op)
      <4>1. CASE y = x
        BY <2>1, <2>2, <2>4, <3>1, <4>1 DEF Rencontre
      <4>2. CASE z = x
        BY <2>1, <2>2, <2>4, <3>1, <4>2 DEF Rencontre
      <4>3. CASE y # x /\ z # x
        BY <2>3, <2>4, <3>1, <4>3 DEF TransfertSeul
      <4> QED BY <4>1, <4>2, <4>3
    <3> QED BY <3>1 DEF TransfertSeul
  <2>6. AutresCibles'
    <3>1. ASSUME NEW y \in Requete, Occupee(y)', requetes'[y].op \in {"changerRole", "retirer"}
          PROVE  requetes'[y].u # proprietaire
      <4>1. CASE y = x
        BY <2>1, <2>2, <3>1, <4>1 DEF Convient, Cible
      <4>2. CASE y # x
        BY <2>3, <2>4, <3>1, <4>2 DEF AutresCibles
      <4> QED BY <4>1, <4>2
    <3> QED BY <2>1, <3>1 DEF AutresCibles
  <2>7. HeritierMembre'
    <3>1. ASSUME NEW y \in Requete, Occupee(y)', "ecrireProprietaire" \in Encore(requetes'[y].reste)
          PROVE  /\ requetes'[y].u \in users
                 /\ requetes'[y].op = "transferer" => role[requetes'[y].u] = "ADMIN"
      <4>1. CASE y = x
        <5>1. op \in Transferts
          <6>1. Selon(op, Head(requetes'[x].reste), Encore(requetes'[x].reste))
            BY <2>2, EngageeSelon
          <6> QED BY ONLY <3>1, <4>1, <6>1 DEF Selon, Transferts
        <5> QED BY <2>1, <2>2, <4>1, <5>1 DEF Convient, Cible, Transferts
      <4>2. CASE y # x
        BY <2>3, <2>4, <3>1, <4>2, ResteEncore DEF HeritierMembre
      <4> QED BY <4>1, <4>2
    <3> QED BY <2>1, <3>1, ResteEncore DEF HeritierMembre
  <2>8. ProprietaireAdmin'
    <3>1. ASSUME NEW y \in Requete, Occupee(y), requetes[y].op = "transfererPromu",
                 requetes[y].u = proprietaire, Reste(y, "ecrireRole")
          PROVE  ProprietaireAdmin'
      <4>1. y # x
        BY <2>2, <3>1
      <4> QED BY <2>1, <2>4, <3>1, <4>1, ResteEncore DEF ProprietaireAdmin
    <3> QED BY <2>1, <2>3, <3>1 DEF ProprietaireAdmin
  <2> QED BY <2>1, <2>3, <2>5, <2>6, <2>7, <2>8 DEF ProprietaireMembre
<1>2. ASSUME NEW x \in Requete, Statement(x) PROVE But
  BY <1>2, AutoriteStatement
<1>3. CASE Immediat
  <2>1. ASSUME NEW u \in User, SupprimerCompteAdmin(u) PROVE But
    <3>1. /\ SansUser(u) /\ UNCHANGED <<proprietaire, requetes>> /\ ~croise /\ u # proprietaire
          /\ \A x \in Requete : Occupee(x) => requetes[x].op \notin Transferts
      BY <2>1 DEF SupprimerCompteAdmin, SansCompte
    <3>2. ProprietaireMembre /\ TransfertSeul /\ AutresCibles /\ HeritierMembre /\ ProprietaireAdmin
      BY <1>a, <3>1
    <3>3. proprietaire \in users' /\ role'[proprietaire] = role[proprietaire]
      BY <3>1, <3>2 DEF SansUser, ProprietaireMembre, Types, TypeLignes
    <3>4. HeritierMembre'
      <4>1. ASSUME NEW y \in Requete, Occupee(y)', "ecrireProprietaire" \in Encore(requetes'[y].reste)
            PROVE  FALSE
        <5>1. Occupee(y) /\ "ecrireProprietaire" \in Encore(requetes[y].reste)
          BY <3>1, <4>1 DEF Occupee
        <5>2. Selon(requetes[y].op, Head(requetes[y].reste), Encore(requetes[y].reste))
          BY <5>1, Prochain
        <5>3. requetes[y].op \in Transferts
          BY ONLY <5>1, <5>2 DEF Selon, Transferts
        <5> QED BY <3>1, <5>1, <5>3
      <4> QED BY <4>1, ResteEncore DEF HeritierMembre
    <3>5. ProprietaireAdmin'
      BY <3>1, <3>2, <3>3 DEF ProprietaireAdmin, Transferts
    <3> QED BY <3>1, <3>2, <3>3, <3>4, <3>5 DEF ProprietaireMembre, TransfertSeul,
         AutresCibles, Occupee
  <2>2. CASE ~\E u \in User : SupprimerCompteAdmin(u)
    <3>1. UNCHANGED <<users, role, proprietaire, requetes, croise>>
      BY <1>3, <2>2 DEF Immediat, InviterAuBureau, AccepterAuBureau, OublierInvitation,
         QuitterBureau, SupprimerBureau, Inviter, Desinviter, Inscrire, horsAdhesions
    <3> QED BY <1>u, <3>1
  <2> QED BY <2>1, <2>2
<1>4. CASE Arret
  <2>1. /\ UNCHANGED <<users, role, proprietaire>> /\ ~croise
        /\ \A x \in Requete : requetes'[x] = Libre
        /\ \A x \in Requete : Occupee(x) => requetes[x].op \notin Transferts
    BY <1>4 DEF Arret, lignes
  <2>2. ProprietaireMembre /\ ProprietaireAdmin
    BY <1>a, <2>1
  <2>3. role[proprietaire] = "ADMIN"
    BY <2>1, <2>2 DEF ProprietaireAdmin, Transferts
  <2> QED BY <2>1, <2>2, <2>3 DEF ProprietaireMembre, TransfertSeul, AutresCibles,
       HeritierMembre,
         ProprietaireAdmin, Occupee
<1>5. CASE UNCHANGED vars
  BY <1>5, <1>u DEF vars
<1> QED BY <1>1, <1>2, <1>3, <1>4, <1>5 DEF Next, Recevoir

(* As long as no transfer of ownership has met another request on the roles  *)
(* or the members, the owner is a member and an admin, or the transfer is    *)
(* about to write the role: demotions, removals and transfers refuse what    *)
(* they have read to be the owner (organisation.service).                    *)
THEOREM ProprietaireAutoriteCorrect == Spec => []ProprietaireAutorite
<1>1. Init => Types /\ ProprietaireTenu
  <2> SUFFICES ASSUME Init PROVE ProprietaireTenu
    BY TypesInit
  <2>1. /\ proprietaire \in users /\ proprietaire \in User /\ role[proprietaire] = "ADMIN"
        /\ \A x \in Requete : requetes[x] = Libre
    BY MembresAssumption DEF Init
  <2> QED BY <2>1 DEF ProprietaireTenu, ProprietaireMembre, TransfertSeul, AutresCibles,
       HeritierMembre,
         ProprietaireAdmin, Occupee
<1>2. Types /\ ProprietaireTenu /\ [Next]_vars => Types' /\ ProprietaireTenu'
  BY TypesStep, AutoriteStep
<1>3. ProprietaireTenu => ProprietaireAutorite
  BY DEF ProprietaireTenu, ProprietaireMembre, ProprietaireAdmin, ProprietaireAutorite
<1> QED BY <1>1, <1>2, <1>3, PTL DEF Spec

-----------------------------------------------------------------------------
(* The accounts.                                                             *)

(* Request x still deletes the account c if nothing is left, or is about to  *)
(* give it its row.                                                          *)
Suit(x, c) ==
    /\ Occupee(x) /\ requetes[x].u = c
    /\ Head(requetes[x].reste) \in {"compterRestants", "supprimerCompte", "creerUser"}

(* Every action keeps the accounts attached.                                 *)
LEMMA RattacheStep ==
    Types /\ Rattache /\ [Next]_vars => Rattache'
<1> SUFFICES ASSUME Types, Rattache, [Next]_vars, NEW c \in comptes'
             PROVE  \/ c \in users' \cup ailleurs' \cup orphelins'
                    \/ \E x \in Requete : Suit(x, c)'
  BY DEF Rattache, Suit
<1> DEFINE But == \/ c \in users' \cup ailleurs' \cup orphelins'
                  \/ \E x \in Requete : Suit(x, c)'
<1>p. ASSUME c \in comptes
      PROVE  c \in users \cup ailleurs \cup orphelins \/ \E x \in Requete : Suit(x, c)
  BY <1>p DEF Rattache, Suit
<1>k. ASSUME NEW x \in Requete, Autres(x), c \in comptes,
             c \in users \cup ailleurs \cup orphelins => But,
             Suit(x, c) => But
      PROVE  But
  <2>1. ASSUME NEW y \in Requete, y # x, Suit(y, c) PROVE Suit(y, c)'
    BY <1>k, <2>1 DEF Suit, Autres, Occupee
  <2> QED BY <1>k, <1>p, <2>1
<1>i. ASSUME requetes' = requetes, c \in comptes,
             c \in users \cup ailleurs \cup orphelins => c \in users' \cup ailleurs' \cup orphelins'
      PROVE  But
  <2>1. ASSUME NEW y \in Requete, Suit(y, c) PROVE Suit(y, c)'
    BY <1>i, <2>1 DEF Suit, Occupee
  <2> QED BY <1>i, <1>p, <2>1
<1>1. ASSUME NEW x \in Requete, Recevoir(x) PROVE But
  <2>1. /\ UNCHANGED <<comptes, users, ailleurs, orphelins>> /\ Autres(x) /\ ~Occupee(x)
    BY <1>1, EffetCharger DEF Recevoir, Charger, lignes
  <2> QED BY <1>k, <2>1 DEF Suit
<1>2. ASSUME NEW x \in Requete, Statement(x) PROVE But
  <2>0. Autres(x) /\ Occupee(x)
    BY <1>2, EffetStatement
  <2> DEFINE q == requetes[x]
             suite == Encore(requetes[x].reste)
  <2>s. Selon(q.op, Head(q.reste), suite)
    BY <2>0, Prochain
  (* The request goes on to a statement that follows the account.            *)
  <2>a. ASSUME Poursuivre(x), q.u = c,
               Head(q.reste) \in {"creerCompte", "supprimerUser", "quitterAilleurs", "compterRestants"}
        PROVE  But
    <3>1. suite # {Head(q.reste)}
      BY <2>s, <2>a DEF Selon
    <3>2. Avance(x)
      BY <2>0, <2>a, <3>1, EffetPoursuivre
    <3>3. /\ Engagee(requetes'[x]) /\ requetes'[x].u = c /\ requetes'[x].op = q.op
          /\ Encore(requetes'[x].reste) = suite \ {Head(q.reste)}
      BY <2>a, <3>2 DEF Avance
    <3>4. Selon(q.op, Head(requetes'[x].reste), Encore(requetes'[x].reste)) /\ requetes'[x] # Libre
      BY <3>3, EngageeSelon
    <3>5. Head(requetes'[x].reste) \in {"compterRestants", "supprimerCompte", "creerUser"}
      BY <2>s, <2>a, <3>3, <3>4 DEF Selon
    <3> QED BY <3>3, <3>4, <3>5 DEF Suit, Occupee
  <2>b. ASSUME Head(q.reste) \notin {"compterRestants", "supprimerCompte", "creerUser"}
        PROVE  ~Suit(x, c)
    BY <2>b DEF Suit
  <2>1. CASE CreerCompte(x)
    <3>1. /\ Head(q.reste) = "creerCompte" /\ comptes' = comptes \cup {q.u}
          /\ UNCHANGED <<users, ailleurs, orphelins>>
          /\ q.u \notin comptes => Poursuivre(x)
      BY <2>1 DEF CreerCompte, Attend
    <3>2. CASE c \in comptes
      BY <1>k, <2>0, <2>b, <3>1, <3>2
    <3>3. CASE c \notin comptes
      BY <2>a, <3>1, <3>3
    <3> QED BY <3>2, <3>3
  <2>2. CASE CreerUser(x)
    <3>1. /\ UNCHANGED <<comptes, ailleurs>>
          /\ \/ orphelins' = orphelins \cup {q.u} /\ users' = users
             \/ orphelins' = orphelins \ {q.u} /\ users' = users \cup {q.u}
      BY <2>2 DEF CreerUser
    <3>2. Suit(x, c) => c = q.u
      BY DEF Suit
    <3> QED BY <1>k, <2>0, <3>1, <3>2
  <2>3. CASE SupprimerUser(x)
    <3>1. /\ Head(q.reste) = "supprimerUser" /\ UNCHANGED <<comptes, ailleurs, orphelins>>
          /\ \/ users' = users \ {q.u} /\ Poursuivre(x)
             \/ users' = users
      BY <2>3 DEF SupprimerUser, SansUser, Attend
    <3> QED BY <1>k, <2>0, <2>a, <2>b, <3>1
  <2>4. CASE QuitterAilleurs(x)
    <3>1. /\ Head(q.reste) = "quitterAilleurs" /\ UNCHANGED <<comptes, users, orphelins>>
          /\ ailleurs' = ailleurs \ {q.u} /\ (q.u \in ailleurs => Poursuivre(x))
      BY <2>4 DEF QuitterAilleurs, Attend
    <3> QED BY <1>k, <2>0, <2>a, <2>b, <3>1
  <2>5. CASE CompterRestants(x)
    <3>1. /\ Head(q.reste) = "compterRestants" /\ UNCHANGED <<comptes, users, ailleurs, orphelins>>
          /\ q.u \notin users \cup ailleurs => Poursuivre(x)
      BY <2>5 DEF CompterRestants, AucunRestant, Attend, lignes
    <3>2. Suit(x, c) => c = q.u
      BY DEF Suit
    <3> QED BY <1>k, <2>0, <2>a, <3>1, <3>2
  <2>6. CASE SupprimerCompte(x)
    <3>1. /\ comptes' = comptes \ {q.u} /\ ailleurs' = ailleurs \ {q.u}
          /\ orphelins' = orphelins \ {q.u} /\ users' = users \ {q.u}
      BY <2>6 DEF SupprimerCompte, SansCompte, SansUser
    <3>2. Suit(x, c) => c = q.u
      BY DEF Suit
    <3> QED BY <1>k, <2>0, <3>1, <3>2
  <2>7. ASSUME UNCHANGED <<comptes, users, ailleurs, orphelins>>,
               Head(q.reste) \notin {"compterRestants", "supprimerCompte", "creerUser"}
        PROVE  But
    BY <1>k, <2>0, <2>7, <2>b
  <2>8. CASE \/ EcrireRole(x) \/ EcrireProprietaire(x) \/ CreerBureau(x) \/ LireAdmins(x)
             \/ LireBureaux(x) \/ Adherer(x) \/ CreerOrganizer(x) \/ CreerPersonnel(x)
    BY <2>7, <2>8 DEF EcrireRole, EcrireProprietaire, CreerBureau, LireAdmins, LireBureaux,
         Adherer,
       CreerOrganizer, CreerPersonnel, Attend, lignes
  <2> QED BY <1>2, <2>1, <2>2, <2>3, <2>4, <2>5, <2>6, <2>8 DEF Statement
<1>3. CASE Immediat
  <2>1. requetes' = requetes
    BY <1>3 DEF Immediat, InviterAuBureau, AccepterAuBureau, OublierInvitation,
         QuitterBureau,
       SupprimerBureau, Inviter, Desinviter, Inscrire, SupprimerCompteAdmin, horsAdhesions
  <2>2. \/ UNCHANGED <<comptes, users, ailleurs, orphelins>>
        \/ \E u \in User : Inscrire(u) \/ SupprimerCompteAdmin(u)
    BY <1>3 DEF Immediat, InviterAuBureau, AccepterAuBureau, OublierInvitation,
         QuitterBureau,
       SupprimerBureau, Inviter, Desinviter, horsAdhesions
  <2>3. ASSUME NEW u \in User, Inscrire(u) PROVE But
    <3>1. /\ users' = users /\ comptes' = comptes \cup {u} /\ ailleurs' = ailleurs \cup {u}
          /\ orphelins' = orphelins \ {u}
      BY <2>3 DEF Inscrire
    <3> QED BY <1>i, <2>1, <3>1
  <2>4. ASSUME NEW u \in User, SupprimerCompteAdmin(u) PROVE But
    <3>1. /\ comptes' = comptes \ {u} /\ ailleurs' = ailleurs \ {u}
          /\ orphelins' = orphelins \ {u} /\ users' = users \ {u}
      BY <2>4 DEF SupprimerCompteAdmin, SansCompte, SansUser
    <3> QED BY <1>i, <2>1, <3>1
  <2> QED BY <1>i, <2>1, <2>2, <2>3, <2>4
<1>4. CASE Arret
  <2>1. UNCHANGED <<comptes, users, ailleurs>> /\ orphelins \subseteq orphelins'
    BY <1>4 DEF Arret, lignes
  <2>2. ASSUME NEW x \in Requete, Suit(x, c) PROVE c \in orphelins'
    <3>1. Occupee(x) /\ c = requetes[x].u
      BY <2>2 DEF Suit
    <3>2. Selon(requetes[x].op, Head(requetes[x].reste), Encore(requetes[x].reste))
      BY <3>1, Prochain
    <3>3. \/ "creerUser" \in Encore(requetes[x].reste)
          \/ "supprimerCompte" \in Encore(requetes[x].reste)
      BY <2>2, <3>2 DEF Selon, Suit
    <3>4. Reste(x, "creerUser") \/ Reste(x, "supprimerCompte")
      BY <3>3, ResteEncore
    <3> QED BY <1>4, <3>1, <3>4 DEF Arret
  <2> QED BY <1>p, <2>1, <2>2
<1>5. CASE UNCHANGED vars
  BY <1>5, <1>i DEF vars
<1> QED BY <1>1, <1>2, <1>3, <1>4, <1>5 DEF Next

(* An account has a User row in some organisation, or a request in hand that *)
(* deletes it or gives it one; only a request refused or cut short leaves    *)
(* one without (organisation.removeMembre(), admin.deleteAccount(),          *)
(* auth.acceptInvitation()).                                                 *)
THEOREM CompteRattacheCorrect == Spec => []CompteRattache
<1>1. Init => Types /\ Rattache
  BY TypesInit DEF Init, Rattache
<1>2. Types /\ Rattache /\ [Next]_vars => Types' /\ Rattache'
  BY TypesStep, RattacheStep
<1>3. Types /\ Rattache => CompteRattache
  <2> SUFFICES ASSUME Types, Rattache, NEW c \in comptes, NEW x \in Requete, Occupee(x),
                      Head(requetes[x].reste) \in {"compterRestants", "supprimerCompte", "creerUser"}
               PROVE  Reste(x, "supprimerCompte") \/ Reste(x, "creerUser")
    BY DEF Rattache, CompteRattache
  <2>1. Selon(requetes[x].op, Head(requetes[x].reste), Encore(requetes[x].reste))
    BY Prochain
  <2>2. \/ "creerUser" \in Encore(requetes[x].reste)
        \/ "supprimerCompte" \in Encore(requetes[x].reste)
    BY <2>1 DEF Selon
  <2> QED BY <2>2, ResteEncore
<1> QED BY <1>1, <1>2, <1>3, PTL DEF Spec

-----------------------------------------------------------------------------
(* The pages: the calls by the guard they meet.                            *)

PourTous ==
    {"listBureaux", "getBureauxAValider", "listMyBureauInvitations",
     "acceptBureauInvitation", "declineBureauInvitation", "getOrganisation",
     "listOrganisationMembres", "getOrganisationStats", "getMyOrganizer", "getMyTasks",
     "listDirectConversations", "startDirectConversation", "getAlertes",
     "getValidationsAujourdhui"}

PourAutorite ==
    {"createBureau", "deleteBureau", "setBureauAlerte", "reorderBureaux",
     "updateOrganisation", "uploadOrganisationLogo", "removeOrganisationLogo",
     "addOrganisationMembre", "updateMembrePoste", "listOrganisationInvitations",
     "cancelOrganisationInvitation", "getOrganisationTasks", "getBureauEvolution"}

PourMembre ==
    {"getBureau", "getBureauStats", "getBureauOrganizer", "listOrganizerSubjects",
     "createOrganizerSubject", "renameOrganizerSubject", "deleteOrganizerSubject",
     "archiveOrganizerSubject", "dupliquerOrganizerSubject", "createTache",
     "listBureauTaches", "listMessages", "getDailyBrief"}

PourManager ==
    {"updateBureau", "updateBureauParametres", "uploadBureauPhoto", "removeBureauPhoto",
     "addMembre", "listBureauInvitations", "cancelBureauInvitation", "removeMembre",
     "validerTache"}

(* The guard that each call of a page meets, by its handler.               *)
LEMMA GardesDesAppels ==
    /\ \A a \in PourTous : Routes[Appels[a]] = "tous"
    /\ \A a \in PourAutorite : Routes[Appels[a]] = "autorite"
    /\ \A a \in PourMembre : Routes[Appels[a]] = "membre"
    /\ \A a \in PourManager : Routes[Appels[a]] = "manager"
    /\ Routes[Appels["getMembreStats"]] = "soi" /\ Routes[Appels["getMembreJournal"]] = "soi"
    /\ Routes[Appels["getMembreEvolution"]] = "soi"
    /\ Routes[Appels["updateOrganisationMembreRole"]] = "saufProprio"
    /\ Routes[Appels["removeOrganisationMembre"]] = "retrait"
    /\ Routes[Appels["transferOwnership"]] = "cession"
    /\ Routes[Appels["deleteOrganisation"]] = "proprio"
<1>1. /\ Appels["listBureaux"] = "findAll"
      /\ Appels["getBureauxAValider"] = "getAValider"
      /\ Appels["listMyBureauInvitations"] = "listMyInvitations"
      /\ Appels["acceptBureauInvitation"] = "acceptInvitation"
      /\ Appels["declineBureauInvitation"] = "declineInvitation"
      /\ Appels["getOrganisation"] = "findOne"
      /\ Appels["listOrganisationMembres"] = "listMembres"
      /\ Appels["getOrganisationStats"] = "getStats"
      /\ Appels["getMyOrganizer"] = "findPersonal"
      /\ Appels["getMyTasks"] = "mesTaches"
      /\ Appels["listDirectConversations"] = "directMessages"
      /\ Appels["startDirectConversation"] = "directMessages"
      /\ Appels["getAlertes"] = "alertes"
      /\ Appels["getValidationsAujourdhui"] = "validationsAujourdhui"
  BY DEF Avec, Appels, AppelsBureaux, AppelsOrganisation, AppelsInvitations, AppelsTaches,
           AppelsJour
<1>2. /\ Appels["createBureau"] = "create"
      /\ Appels["deleteBureau"] = "removeBureau"
      /\ Appels["setBureauAlerte"] = "setAlerte"
      /\ Appels["reorderBureaux"] = "reorder"
      /\ Appels["updateOrganisation"] = "update"
      /\ Appels["uploadOrganisationLogo"] = "uploadLogo"
      /\ Appels["removeOrganisationLogo"] = "removeLogo"
      /\ Appels["addOrganisationMembre"] = "addMembre"
      /\ Appels["updateMembrePoste"] = "updateMembrePoste"
      /\ Appels["listOrganisationInvitations"] = "listInvitations"
      /\ Appels["cancelOrganisationInvitation"] = "cancelInvitation"
      /\ Appels["getOrganisationTasks"] = "organisationTaches"
      /\ Appels["getBureauEvolution"] = "getBureauEvolution"
  BY DEF Avec, Appels, AppelsBureaux, AppelsOrganisation, AppelsInvitations, AppelsTaches,
           AppelsJour
<1>3. /\ Appels["getBureau"] = "findBureau"
      /\ Appels["getBureauStats"] = "getBureauStats"
      /\ Appels["getBureauOrganizer"] = "findForBureau"
      /\ Appels["listOrganizerSubjects"] = "subjects"
      /\ Appels["createOrganizerSubject"] = "subjects"
      /\ Appels["renameOrganizerSubject"] = "subjects"
      /\ Appels["deleteOrganizerSubject"] = "subjects"
      /\ Appels["archiveOrganizerSubject"] = "subjects"
      /\ Appels["dupliquerOrganizerSubject"] = "subjects"
      /\ Appels["createTache"] = "subjects"
      /\ Appels["listBureauTaches"] = "listForBureau"
      /\ Appels["listMessages"] = "listMessages"
      /\ Appels["getDailyBrief"] = "brief"
  BY DEF Avec, Appels, AppelsBureaux, AppelsOrganisation, AppelsInvitations, AppelsTaches,
           AppelsJour
<1>4. /\ Appels["updateBureau"] = "updateBureau"
      /\ Appels["updateBureauParametres"] = "updateParametres"
      /\ Appels["uploadBureauPhoto"] = "uploadPhoto"
      /\ Appels["removeBureauPhoto"] = "removePhoto"
      /\ Appels["addMembre"] = "addMembreBureau"
      /\ Appels["listBureauInvitations"] = "listInvitationsBureau"
      /\ Appels["cancelBureauInvitation"] = "cancelInvitationBureau"
      /\ Appels["removeMembre"] = "removeMembreBureau"
      /\ Appels["validerTache"] = "valider"
  BY DEF Avec, Appels, AppelsBureaux, AppelsOrganisation, AppelsInvitations, AppelsTaches,
           AppelsJour
<1>5. /\ Appels["getMembreStats"] = "getMembreStats"
      /\ Appels["getMembreJournal"] = "getMembreJournal"
      /\ Appels["getMembreEvolution"] = "getMembreEvolution"
      /\ Appels["updateOrganisationMembreRole"] = "updateMembreRole"
      /\ Appels["removeOrganisationMembre"] = "removeMembre"
      /\ Appels["transferOwnership"] = "transferOwnership"
      /\ Appels["deleteOrganisation"] = "remove"
  BY DEF Avec, Appels, AppelsBureaux, AppelsOrganisation, AppelsInvitations, AppelsTaches,
           AppelsJour
<1>6. /\ Routes["acceptInvitation"] = "tous"
      /\ Routes["addMembre"] = "autorite"
      /\ Routes["addMembreBureau"] = "manager"
      /\ Routes["alertes"] = "tous"
      /\ Routes["brief"] = "membre"
      /\ Routes["cancelInvitation"] = "autorite"
      /\ Routes["cancelInvitationBureau"] = "manager"
      /\ Routes["create"] = "autorite"
      /\ Routes["declineInvitation"] = "tous"
      /\ Routes["directMessages"] = "tous"
      /\ Routes["findAll"] = "tous"
      /\ Routes["findBureau"] = "membre"
      /\ Routes["findForBureau"] = "membre"
      /\ Routes["findOne"] = "tous"
      /\ Routes["findPersonal"] = "tous"
      /\ Routes["getAValider"] = "tous"
      /\ Routes["getBureauEvolution"] = "autorite"
      /\ Routes["getBureauStats"] = "membre"
      /\ Routes["getMembreEvolution"] = "soi"
      /\ Routes["getMembreJournal"] = "soi"
      /\ Routes["getMembreStats"] = "soi"
      /\ Routes["getStats"] = "tous"
      /\ Routes["listForBureau"] = "membre"
      /\ Routes["listInvitations"] = "autorite"
      /\ Routes["listInvitationsBureau"] = "manager"
      /\ Routes["listMembres"] = "tous"
      /\ Routes["listMessages"] = "membre"
      /\ Routes["listMyInvitations"] = "tous"
      /\ Routes["mesTaches"] = "tous"
      /\ Routes["organisationTaches"] = "autorite"
      /\ Routes["remove"] = "proprio"
      /\ Routes["removeBureau"] = "autorite"
      /\ Routes["removeLogo"] = "autorite"
      /\ Routes["removeMembre"] = "retrait"
      /\ Routes["removeMembreBureau"] = "manager"
      /\ Routes["removePhoto"] = "manager"
      /\ Routes["reorder"] = "autorite"
      /\ Routes["setAlerte"] = "autorite"
      /\ Routes["subjects"] = "membre"
      /\ Routes["transferOwnership"] = "cession"
      /\ Routes["update"] = "autorite"
      /\ Routes["updateBureau"] = "manager"
      /\ Routes["updateMembrePoste"] = "autorite"
      /\ Routes["updateMembreRole"] = "saufProprio"
      /\ Routes["updateParametres"] = "manager"
      /\ Routes["uploadLogo"] = "autorite"
      /\ Routes["uploadPhoto"] = "manager"
      /\ Routes["validationsAujourdhui"] = "tous"
      /\ Routes["valider"] = "manager"
  BY ZenonT(40) DEF Avec, Routes, RoutesOrganisation, RoutesBureaux, RoutesAdhesions, RoutesOrganizer,
           RoutesTaches
<1> QED BY <1>1, <1>2, <1>3, <1>4, <1>5, <1>6
    DEF PourTous, PourAutorite, PourMembre, PourManager

PourSoi == {"getMembreStats", "getMembreJournal", "getMembreEvolution"}

(* What a person obtains of the API, by what the situation is. *)
LEMMA Accordes ==
    ASSUME NEW s \in Situation
    PROVE  /\ \A a \in PourTous : Accepte(s, a)
           /\ s.role = "ADMIN" => \A a \in PourAutorite : Accepte(s, a)
           /\ Entre(s) => \A a \in PourMembre : Accepte(s, a)
           /\ Gere(s) => \A a \in PourManager : Accepte(s, a)
           /\ s.soi \/ s.role = "ADMIN" => \A a \in PourSoi : Accepte(s, a)
           /\ s.role = "ADMIN" /\ ~s.cibleProprio => Accepte(s, "updateOrganisationMembreRole")
           /\ s.role = "ADMIN" /\ ~s.cibleProprio /\ ~s.soi =>
                  Accepte(s, "removeOrganisationMembre")
           /\ s.role = "ADMIN" /\ ~s.cibleProprio /\ s.proprio => Accepte(s, "transferOwnership")
           /\ s.role = "ADMIN" /\ s.proprio => Accepte(s, "deleteOrganisation")
BY GardesDesAppels
   DEF Accepte, Satisfait, Autorite, MembreDuBureau, ManagerDuBureau, Entre, Gere, PourSoi

(* The calls each page waits for are among those its reader obtains.         *)
LEMMA SituationsSontOuvertes == Situation \subseteq SituationsOuvertes
<1> SUFFICES ASSUME NEW s \in Situation, NEW page \in PagesOffertes(s), page # "members"
             PROVE  Chargee(s, page)
  BY DEF SituationsOuvertes
<1>1. CASE page \in {"tableau", "bureaux", "validations", "chat", "monEspace", "parametres"}
  <2>1. Charge(s, page) \subseteq PourTous
    BY <1>1 DEF Charge, ChargeTableau, ChargeBureaux, ChargeValidations, ChargeMonEspace,
         ChargeParametres, Si, PourTous
  <2> QED BY <1>1, <2>1, Accordes DEF Chargee
<1>2. CASE page = "performance"
  <2> DEFINE t == [s EXCEPT !.soi = TRUE]
  <2>1. t \in Situation /\ t.soi /\ t.role = s.role
    BY DEF Situation
  <2>2. /\ Charge(s, page) \subseteq PourSoi \cup PourTous \cup PourAutorite
        /\ s.role # "ADMIN" => Charge(s, page) \subseteq PourSoi
    BY <1>2 DEF Charge, ChargePerformance, Si, PourSoi, PourTous, PourAutorite
  <2>3. \A a \in Charge(s, page) : Accepte(t, a)
    <3> HIDE DEF t
    <3> QED BY <2>1, <2>2, Accordes
  <2> QED BY <1>2, <2>3 DEF Chargee
<1>3. CASE page = "calendrier"
  <2>1. /\ Charge(s, page) \subseteq PourTous \cup PourAutorite
        /\ s.role # "ADMIN" => Charge(s, page) \subseteq PourTous
    BY <1>3 DEF Charge, ChargeCalendrier, Si, PourTous, PourAutorite
  <2> QED BY <1>3, <2>1, Accordes DEF Chargee
<1>4. CASE page \in {"apercu", "organizer", "taches", "checkIn", "parametresBureau"}
  <2>1. Entre(s)
    BY <1>4 DEF PagesOffertes, PagesDuMenu, Si
  <2>2. /\ Charge(s, page) \subseteq PourTous \cup PourMembre \cup PourManager
        /\ ~Gere(s) => Charge(s, page) \subseteq PourTous \cup PourMembre
    BY <1>4 DEF Charge, ChargeApercu, ChargeOrganizer, ChargeTaches, ChargeCheckIn, Si,
         PourTous, PourMembre, PourManager
  <2> QED BY <1>4, <2>1, <2>2, Accordes DEF Chargee
<1> QED BY <1>1, <1>2, <1>3, <1>4 DEF PagesOffertes, PagesDuMenu, OngletsDuBureau, Si

(* The calls behind the buttons of a page are among those their reader obtains. *)
LEMMA SituationsSontAcceptees == Situation \subseteq SituationsAcceptees
<1> SUFFICES ASSUME NEW s \in Situation, NEW page \in PagesOffertes(s),
                    NEW a \in Boutons(s, page)
             PROVE  Accepte(s, a)
  BY DEF SituationsAcceptees
<1>1. CASE page = "members"
  <2>1. /\ s.role = "ADMIN"
        /\ \/ a \in PourAutorite
           \/ a = "updateOrganisationMembreRole" /\ ~s.cibleProprio
           \/ a = "transferOwnership" /\ ~s.cibleProprio /\ s.proprio
           \/ a = "removeOrganisationMembre" /\ ~s.cibleProprio /\ ~s.soi
    BY <1>1 DEF Boutons, BoutonsMembres, Si, PourAutorite
  <2> QED BY <2>1, Accordes
<1>2. CASE page \in {"bureaux", "chat"}
  <2>1. a \in PourTous \/ (s.role = "ADMIN" /\ a \in PourAutorite)
    BY <1>2 DEF Boutons, BoutonsBureaux, Si, PourTous, PourAutorite
  <2> QED BY <2>1, Accordes
<1>3. CASE page \in {"apercu", "organizer", "taches", "checkIn", "parametresBureau"}
  <2>1. Entre(s)
    BY <1>3 DEF PagesOffertes, PagesDuMenu, Si
  <2>2. \/ a \in PourMembre
        \/ Gere(s) /\ a \in PourManager
        \/ s.role = "ADMIN" /\ a \in PourAutorite
    BY <1>3 DEF Boutons, BoutonsApercu, BoutonsOrganizer, BoutonsTaches, BoutonsCheckIn,
         BoutonsParametresBureau, Si, PourMembre, PourManager, PourAutorite
  <2> QED BY <2>1, <2>2, Accordes
<1>4. CASE page = "parametres"
  <2>1. s.role = "ADMIN" /\ (a \in PourAutorite \/ (s.proprio /\ a = "deleteOrganisation"))
    BY <1>4 DEF Boutons, BoutonsParametres, Si, PourAutorite
  <2> QED BY <2>1, Accordes
<1>5. CASE page = "performance"
  <2>1. s.role = "ADMIN" /\ a \in PourSoi \cup PourAutorite
    BY <1>5 DEF Boutons, BoutonsPerformance, Si, PourSoi, PourAutorite
  <2> QED BY <2>1, Accordes
<1>6. CASE page \in {"tableau", "validations", "calendrier", "monEspace"}
  BY <1>6 DEF Boutons
<1> QED BY <1>1, <1>2, <1>3, <1>4, <1>5, <1>6
        DEF PagesOffertes, PagesDuMenu, OngletsDuBureau, Si

(* Whatever the people, offices, roles and requests in hand, each page that  *)
(* the sidebar, the list of offices and the tabs lead a person to is granted *)
(* all it asks before it shows anything, and every button it shows: the      *)
(* conditions of the pages imply the guards of the controllers.              *)
THEOREM PagesTenuesCorrect == Spec => []PagesTenues
<1>1. Types => PagesTenues
  <2> SUFFICES ASSUME Types PROVE Situations \subseteq Situation
    BY SituationsSontOuvertes, SituationsSontAcceptees
       DEF PagesTenues, PagesOuvertes, BoutonsDesPages
  <2> SUFFICES ASSUME NEW u \in users, NEW b \in bureaux \cup {Nul}, NEW v \in users
               PROVE  SituationDe(u, b, v) \in Situation
    BY DEF Situations
  <2>1. role[u] \in RoleGlobal
    BY DEF Types, TypeLignes
  <2> QED BY <2>1 DEF SituationDe, Situation
<1> QED BY <1>1, MembresTypeCorrect, PTL

================================================================================
