----------------------------- MODULE Statistiques -----------------------------
(***************************************************************************)
(* What the API computes from the life of a task: the hours of its         *)
(* sessions by day and by period, the validations credited to a person,    *)
(* the replay of a project's report.  Every figure is a sum over tasks, so *)
(* one task is enough to tell whether each is counted, where and once.     *)
(*                                                                         *)
(* An instant is the hour of a day of JourLong instants.  endOfDay() is    *)
(* the last millisecond of its day, which the rounding of the hours hides: *)
(* here a period ends with its last day, excluded.                         *)
(***************************************************************************)
EXTENDS TacheCycle, FiniteSetsExt

CONSTANTS
    JourLong,      \* instants in a day
    MaxSessions    \* bound: rows of TacheSession

ASSUME JourAssumption == JourLong \in Nat \ {0} /\ MaxSessions \in Nat

VARIABLES
    sessions,   \* TacheSession rows of the task
    creee       \* createdAt of the task

varsStats == <<vars, sessions, creee>>

Session == [user : User, debut : Instant, fin : DateOuNul]

(* The rows behind the counts of TacheCycle: a count that rises is a row   *)
(* created, one that falls to zero closes the rows; rows go with the task  *)
(* and with the user.                                                      *)
Fermee(s) == [s EXCEPT !.fin = IF ouvertes'[s.user] = 0 /\ @ = Nul THEN horloge ELSE @]
Ouvertures == {u \in User : ouvertes'[u] > ouvertes[u]}

SessionsSuivantes ==
    IF ~existe' THEN {}
    ELSE {Fermee(s) : s \in {s \in sessions : s.user \in comptes'}}
         \cup [user : Ouvertures, debut : {horloge}, fin : {Nul}]

InitStats == Init /\ sessions = {} /\ creee = 0

NextStats ==
    /\ Next
    /\ sessions' = SessionsSuivantes
    /\ Cardinality(sessions') <= MaxSessions
    /\ creee' = IF existe' /\ ~existe THEN horloge ELSE creee

SpecStats == InitStats /\ [][NextStats]_varsStats

-----------------------------------------------------------------------------
(* Days and periods. *)

Jour(t) == t \div JourLong
Jours == 0..Jour(MaxHorloge)
Minuit(j) == j * JourLong
DansPeriode(t, from, to) == t # Nul /\ Jour(t) \in from..to

FinOuMaintenant(s) == IF s.fin = Nul THEN horloge ELSE s.fin
Plus(a, b) == IF a > b THEN a ELSE b
Moins(a, b) == IF a < b THEN a ELSE b

(* The part of a session between two midnights. *)
PartNonBornee(s, debut, fin) ==   \* mutant: no clipping at the end
    Plus(0, FinOuMaintenant(s) - Plus(s.debut, debut))
Part(s, debut, fin) == Plus(0, Moins(FinOuMaintenant(s), fin) - Plus(s.debut, debut))

-----------------------------------------------------------------------------
(* Hours. *)

(* getEvolution(): the sessions that meet the period, cut day by day; of a *)
(* person, or of the office.                                               *)
DeQui(qui, s) == IF qui = Nul THEN ~Personnelle ELSE s.user = qui

SessionsEntamees(qui, from, to) ==   \* mutant: sessions that began in the period
    {s \in sessions : DeQui(qui, s) /\ DansPeriode(s.debut, from, to)}
SessionsDeLaPeriode(qui, from, to) ==
    {s \in sessions : /\ DeQui(qui, s)
                      /\ s.debut < Minuit(to + 1)
                      /\ s.fin = Nul \/ s.fin >= Minuit(from)}

HeuresDuJour(qui, from, to, j) ==
    MapThenSumSet(LAMBDA s : Part(s, Minuit(j), Minuit(j + 1)),
                  SessionsDeLaPeriode(qui, from, to))

(* getMembreStats(): the total of a period keeps the sessions that ended   *)
(* in it, and those that run.                                              *)
SessionsToutes(u, from, to) == {s \in sessions : s.user = u}   \* mutant: no test on fin
SessionsDuTotal(u, from, to) ==
    {s \in sessions : s.user = u /\ (s.fin = Nul \/ DansPeriode(s.fin, from, to))}

HeuresTravaillees(u, from, to) ==
    MapThenSumSet(LAMBDA s : Part(s, Minuit(from), Minuit(to + 1)),
                  SessionsDuTotal(u, from, to))

-----------------------------------------------------------------------------
(* Validations. *)

(* getMembreStats(), and getClassementFiabilite() for members of the       *)
(* office: office tasks validated in the period, credited to the assignee. *)
TachesValidees(u, from, to) ==
    IF ~Personnelle /\ tache.assigneA = u /\ tache.statut = "VALIDE"
       /\ DansPeriode(tache.dateValidation, from, to)
    THEN 1 ELSE 0

(* getMembreJournal(): the same tasks, keyed by the day of validation and  *)
(* read back for the days from..to.                                        *)
ParJour(j) == Jour(tache.dateValidation) = j

Journal(u, from, to) ==
    {j \in from..to : TachesValidees(u, from, to) = 1 /\ ParJour(j)}

(* getEvolution(): midnight to midnight. *)
ValideesDuJour(u, from, to, j) ==
    IF TachesValidees(u, from, to) = 1
       /\ Minuit(j) <= tache.dateValidation /\ tache.dateValidation < Minuit(j + 1)
    THEN 1 ELSE 0

(* getValidationsAujourdhui(): those of today, grouped by assignee. *)
ValideParAujourdhui ==
    {u \in User : TachesValidees(u, Jour(horloge), Jour(horloge)) = 1}

-----------------------------------------------------------------------------
(* genererRapport(): one dated event per date that the row still has, and  *)
(* the replay, day by day, of how many tasks had started, been declared or *)
(* been validated.                                                         *)

Evenements ==
    {e \in {<<"TACHE_CREEE", creee>>, <<"TACHE_DEMARREE", tache.dateDebut>>,
            <<"TACHE_DECLAREE", tache.dateDeclaration>>,
            <<"TACHE_VALIDEE", tache.dateValidation>>} : existe /\ e[2] # Nul}

Rejoue(type, j) == Cardinality({e \in Evenements : e[1] = type /\ Jour(e[2]) <= j})

(* tempsReelMinutes(): the open sessions count up to now. *)
TempsDuChrono == MapThenSumSet(LAMBDA s : FinOuMaintenant(s) - s.debut, sessions)

-----------------------------------------------------------------------------
(* Properties. *)

TypeStats ==
    /\ TypeOK
    /\ sessions \subseteq Session
    /\ creee \in Instant
    /\ \A u \in User : ouvertes[u] = Cardinality({s \in sessions : s.user = u /\ s.fin = Nul})

Periodes == {p \in Jours \X Jours : p[1] <= p[2]}

(* The instants of the period at which u had a session running. *)
Travaille(u, from, to) ==
    {t \in Minuit(from)..(Minuit(to + 1) - 1) :
        \E s \in sessions : s.user = u /\ s.debut <= t /\ t < FinOuMaintenant(s)}

(* The days of an evolution add up to the time worked in the period: each  *)
(* instant once, whatever midnights a session crosses and however often    *)
(* the work was paused, handed over or taken up again.  The office's days  *)
(* are the sum of its people's, and the stopwatch of the task agrees.      *)
SommeDesJours(qui, p) == MapThenSumSet(LAMBDA j : HeuresDuJour(qui, p[1], p[2], j), p[1]..p[2])
SommeDesGens(p) == MapThenSumSet(LAMBDA u : Cardinality(Travaille(u, p[1], p[2])), User)

EvolutionFidele ==
    /\ \A p \in Periodes :
          /\ \A u \in User : SommeDesJours(u, p) = Cardinality(Travaille(u, p[1], p[2]))
          /\ ~Personnelle => SommeDesJours(Nul, p) = SommeDesGens(p)
    /\ TempsDuChrono = SommeDesGens(<<0, Jour(MaxHorloge)>>)

(* A member's total is what the evolution of the same period adds up to,   *)
(* unless a session was closed after the period, which loses its whole     *)
(* part in it: the two figures of one page then differ, and only then.     *)
FermeeApres(u, from, to) ==
    \E s \in sessions : /\ s.user = u
                        /\ s.fin # Nul
                        /\ Jour(s.fin) > to
                        /\ Part(s, Minuit(from), Minuit(to + 1)) > 0

TotalCommeEvolution ==
    \A u \in User, p \in Periodes :
        (HeuresTravaillees(u, p[1], p[2]) = Cardinality(Travaille(u, p[1], p[2])))
            <=> ~FermeeApres(u, p[1], p[2])

(* What a member's journal lists, what the evolution shows day by day and  *)
(* what the total counts are the same validations, each on one day; those  *)
(* of today are in the check-in under one person.                          *)
JournalComplet ==
    /\ \A u \in User, p \in Periodes :
          /\ Cardinality(Journal(u, p[1], p[2])) = TachesValidees(u, p[1], p[2])
          /\ \A j \in p[1]..p[2] :
                ValideesDuJour(u, p[1], p[2], j) = 1 <=> j \in Journal(u, p[1], p[2])
    /\ Cardinality(ValideParAujourdhui) <= 1

(* A validation handed back: the row keeps its date.                       *)
ValidationRendue == tache.statut # "VALIDE" /\ tache.dateValidation # Nul

(* The replay of a report is a history that may have happened: on no day   *)
(* are more tasks declared than started, or validated than declared, and   *)
(* today's count of validations is the report's count of finished tasks,   *)
(* except after a validated task was handed back.                          *)
RapportRejouable ==
    ~ValidationRendue =>
        /\ \A j \in Jours :
              /\ Rejoue("TACHE_VALIDEE", j) <= Rejoue("TACHE_DECLAREE", j)
              /\ Rejoue("TACHE_DECLAREE", j) <= Rejoue("TACHE_DEMARREE", j)
              /\ Rejoue("TACHE_DEMARREE", j) <= Rejoue("TACHE_CREEE", j)
        /\ Rejoue("TACHE_VALIDEE", Jour(horloge)) = (IF tache.statut = "VALIDE" THEN 1 ELSE 0)

(* All the figures shown of the same work agree: total and evolution,      *)
(* journal and total, report and tasks.                                    *)
ChiffresDAccord == TotalCommeEvolution /\ JournalComplet /\ RapportRejouable

(* The past does not move: the hours of a day that is over, as evolution   *)
(* shows them, stay what they are while the task and the person stay, also *)
(* when the session that was open at midnight is closed.                   *)
PasseImmuable ==
    [][\A u \in User, j \in Jours :
          (existe /\ existe' /\ u \in comptes' /\ j < Jour(horloge))
              => HeuresDuJour(u, j, j, j)' = HeuresDuJour(u, j, j, j)]_varsStats

(* The replay of genererRapport() can be played after any requests:        *)
(* refuted, retourner() clears the start of a task and leaves its          *)
(* validation, so that the report shows a validation nobody started.       *)
RapportToujoursRejouable ==
    \A j \in Jours : Rejoue("TACHE_VALIDEE", j) <= Rejoue("TACHE_DEMARREE", j)

=============================================================================
