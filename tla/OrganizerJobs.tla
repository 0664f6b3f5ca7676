---------------------------- MODULE OrganizerJobs ----------------------------
(***************************************************************************)
(* From a message in an Organizer's Subject to its tasks: the request that *)
(* writes the message and queues a job for it (chat.gateway.ts,            *)
(* organizer.scheduler.ts), the worker that asks the AI and writes the     *)
(* tasks (organizer.processor.ts), BullMQ's retries, and the failure shown *)
(* on the Subject.  Every database or AI call is an action of its own; it  *)
(* may fail, and the process may stop between two of them.                 *)
(*                                                                         *)
(* Left out: what the tasks say, and messages without text, for which the  *)
(* worker has nothing to do.  BullMQ is modelled from how it is configured *)
(* here: one worker that runs one job at a time, attempts with a backoff   *)
(* (so waiting jobs start in any order), a job given back to the queue     *)
(* when its worker stops.                                                  *)
(***************************************************************************)
EXTENDS Naturals

CONSTANTS
    Msg,              \* messages of the Subject
    MaxTentatives,    \* "attempts" of a job (4 in organizer.scheduler.ts)
    MaxIncidents,     \* bound: failed statements and stops of the process
    MaxArrets         \* bound: stops; a job that stalls twice is not modelled

ASSUME TentativesAssumption == MaxTentatives \in Nat \ {0}
ASSUME IncidentsAssumption == MaxIncidents \in Nat /\ MaxArrets \in {0, 1}

VARIABLES
    personnel,     \* the Organizer is personal: nobody to notify
    message,       \* the Message row
    envoi,         \* messages whose request has not queued the job yet
    job,           \* BullMQ's job of the message, with the worker's next step
    tentatives,    \* job.attemptsMade
    aSignaler,     \* 'failed' events the processor is handling
    echecSubject,  \* conversation.dernierEchecTraitement is set
    lots,          \* times the message's tasks were written (createMany)
    sansTache,     \* history: messages in which the AI found no task
    incidents,     \* failed statements and stops so far
    arrets         \* stops among them

organizer == <<personnel, message>>
resultat == <<echecSubject, lots, sansTache>>
varsJobs == <<organizer, envoi, job, tentatives, aSignaler, resultat, incidents, arrets>>

(* The await at which a running job stands. *)
Etape == {"lire", "generer", "creer", "notifier", "noter"}
EtatJob == {"aucun", "attente", "termine", "echoue"} \cup Etape

Actif(m) == job[m] \in Etape

InitJobs ==
    /\ personnel \in BOOLEAN
    /\ message = [m \in Msg |-> "jamais"]
    /\ envoi = {}
    /\ job = [m \in Msg |-> "aucun"]
    /\ tentatives = [m \in Msg |-> 0]
    /\ aSignaler = {}
    /\ echecSubject = FALSE
    /\ lots = [m \in Msg |-> 0]
    /\ sansTache = {}
    /\ incidents = 0
    /\ arrets = 0

Incident == incidents < MaxIncidents /\ incidents' = incidents + 1

-----------------------------------------------------------------------------
(* The author's requests. *)

(* handleOrganizerMessage(), sendFile(): the row first... *)
Ecrire(m) ==
    /\ message[m] = "jamais"
    /\ message' = [message EXCEPT ![m] = "present"]
    /\ envoi' = envoi \cup {m}
    /\ UNCHANGED <<personnel, job, tentatives, aSignaler, resultat, incidents,
                   arrets>>

(* ... then the job. *)
Programmer(m) ==
    /\ m \in envoi
    /\ envoi' = envoi \ {m}
    /\ job' = [job EXCEPT ![m] = "attente"]
    /\ UNCHANGED <<organizer, tentatives, aSignaler, resultat, incidents, arrets>>

(* A notification or Redis fails: so does the request, and the row stays. *)
ProgrammationEchouee(m) ==
    /\ m \in envoi
    /\ Incident
    /\ envoi' = envoi \ {m}
    /\ UNCHANGED <<organizer, job, tentatives, aSignaler, resultat, arrets>>

(* deleteMessage(), at any time after the row was written; the job stays.  *)
EffacerMessage(m) ==
    /\ message[m] = "present"
    /\ message' = [message EXCEPT ![m] = "efface"]
    /\ UNCHANGED <<personnel, envoi, job, tentatives, aSignaler, resultat,
                   incidents, arrets>>

(* retryProcessing(): every message of the Subject whose job has failed    *)
(* for good; here one message of that loop.  BullMQ counts its attempts on *)
(* or afresh.                                                              *)
AussiTermine(m) == job[m] \in {"echoue", "termine"}   \* mutant: finished jobs again
Relancable(m) == job[m] = "echoue"

Reessayer(m) ==
    /\ message[m] = "present"
    /\ Relancable(m)
    /\ job' = [job EXCEPT ![m] = "attente"]
    /\ \E n \in {0, tentatives[m]} : tentatives' = [tentatives EXCEPT ![m] = n]
    /\ UNCHANGED <<organizer, envoi, aSignaler, resultat, incidents, arrets>>

-----------------------------------------------------------------------------
(* The worker: process(). *)

Avance(m, etape) == job' = [job EXCEPT ![m] = etape]

(* An attempt has thrown: back to the queue after the backoff, or failed   *)
(* for good when it was the last one; onFailed() hears of both and acts on *)
(* the second.                                                             *)
EncoreUneTentative(m) == tentatives[m] + 1 < MaxTentatives

TentativeEchouee(m) ==
    IF EncoreUneTentative(m)
    THEN /\ tentatives' = [tentatives EXCEPT ![m] = @ + 1]
         /\ Avance(m, "attente")
         /\ UNCHANGED aSignaler
    ELSE /\ tentatives' = [tentatives EXCEPT ![m] = MaxTentatives]
         /\ Avance(m, "echoue")
         /\ aSignaler' = aSignaler \cup {m}

Prendre(m) ==
    /\ job[m] = "attente"
    /\ \A q \in Msg : ~Actif(q)
    /\ Avance(m, "lire")
    /\ UNCHANGED <<organizer, envoi, tentatives, aSignaler, resultat,
                   incidents, arrets>>

(* A message deleted meanwhile is nothing to do. *)
LireMessage(m) ==
    /\ job[m] = "lire"
    /\ Avance(m, IF message[m] = "present" THEN "generer" ELSE "termine")
    /\ UNCHANGED <<organizer, envoi, tentatives, aSignaler, resultat,
                   incidents, arrets>>

ReponseVide(m) ==
    /\ job[m] = "generer"
    /\ Avance(m, "noter")
    /\ sansTache' = sansTache \cup {m}
    /\ UNCHANGED <<organizer, envoi, tentatives, aSignaler, echecSubject, lots,
                   incidents, arrets>>

ReponseTaches(m) ==
    /\ job[m] = "generer"
    /\ Avance(m, "creer")
    /\ UNCHANGED <<organizer, envoi, tentatives, aSignaler, resultat,
                   incidents, arrets>>

(* The AI is down: process() throws again, so that the attempt counts. *)
PanneIAIgnoree(m) ==      \* mutant: the error is swallowed
    Avance(m, "noter") /\ UNCHANGED <<tentatives, aSignaler>>
PanneIASansCompter(m) ==  \* mutant: queued again, not thrown
    Avance(m, "attente") /\ UNCHANGED <<tentatives, aSignaler>>
PanneIARelancee(m) == TentativeEchouee(m)

PanneIA(m) ==
    /\ job[m] = "generer"
    /\ PanneIARelancee(m)
    /\ UNCHANGED <<organizer, envoi, resultat, incidents, arrets>>

CreerTaches(m) ==
    /\ job[m] = "creer"
    /\ lots' = [lots EXCEPT ![m] = @ + 1]
    /\ Avance(m, IF personnel THEN "noter" ELSE "notifier")
    /\ UNCHANGED <<organizer, envoi, tentatives, aSignaler, echecSubject,
                   sansTache, incidents, arrets>>

Notifier(m) ==
    /\ job[m] = "notifier"
    /\ Avance(m, "noter")
    /\ UNCHANGED <<organizer, envoi, tentatives, aSignaler, resultat,
                   incidents, arrets>>

(* The Subject's last success, which also clears its last failure. *)
Noter(m) ==
    /\ job[m] = "noter"
    /\ Avance(m, "termine")
    /\ echecSubject' = FALSE
    /\ UNCHANGED <<organizer, envoi, tentatives, aSignaler, lots, sansTache,
                   incidents, arrets>>

(* The database refuses the statement the job stands at. *)
EcritureEchouee(m) ==
    /\ job[m] \in Etape \ {"generer"}
    /\ Incident
    /\ TentativeEchouee(m)
    /\ UNCHANGED <<organizer, envoi, resultat, arrets>>

(* onFailed() after the last attempt: it reads the message, then updates   *)
(* the Subject (one action: what falls in between can come before or after *)
(* both); its own errors are only logged.                                  *)
Signaler(m) ==
    /\ m \in aSignaler
    /\ aSignaler' = aSignaler \ {m}
    /\ echecSubject' = (echecSubject \/ message[m] = "present")
    /\ UNCHANGED <<organizer, envoi, job, tentatives, lots, sansTache,
                   incidents, arrets>>

SignalementEchoue(m) ==
    /\ m \in aSignaler
    /\ Incident
    /\ aSignaler' = aSignaler \ {m}
    /\ UNCHANGED <<organizer, envoi, job, tentatives, resultat, arrets>>

(* The process stops: requests and event handlers in progress are gone,    *)
(* the running job, found stalled, goes back to the queue.                 *)
Arret ==
    /\ arrets < MaxArrets
    /\ arrets' = arrets + 1
    /\ Incident
    /\ envoi' = {}
    /\ aSignaler' = {}
    /\ job' = [m \in Msg |-> IF Actif(m) THEN "attente" ELSE job[m]]
    /\ UNCHANGED <<organizer, tentatives, resultat>>

-----------------------------------------------------------------------------
AvancerJob(m) ==
    \/ LireMessage(m) \/ ReponseVide(m) \/ ReponseTaches(m) \/ PanneIA(m)
    \/ CreerTaches(m) \/ Notifier(m) \/ Noter(m) \/ EcritureEchouee(m)

NextJobs ==
    \/ \E m \in Msg :
          \/ Ecrire(m) \/ Programmer(m) \/ ProgrammationEchouee(m)
          \/ EffacerMessage(m) \/ Reessayer(m)
          \/ Prendre(m) \/ AvancerJob(m)
          \/ Signaler(m) \/ SignalementEchoue(m)
    \/ Arret

(* A running job gets its answers; the queue is first in, first out, so a  *)
(* waiting job is not passed over for ever.                                *)
Equite == \A m \in Msg : WF_varsJobs(AvancerJob(m)) /\ SF_varsJobs(Prendre(m))

SpecJobs == InitJobs /\ [][NextJobs]_varsJobs /\ Equite

-----------------------------------------------------------------------------
(* Properties. *)

TypeOK ==
    /\ personnel \in BOOLEAN
    /\ message \in [Msg -> {"jamais", "present", "efface"}]
    /\ envoi \subseteq Msg
    /\ job \in [Msg -> EtatJob]
    /\ tentatives \in [Msg -> 0..MaxTentatives]
    /\ aSignaler \subseteq Msg
    /\ echecSubject \in BOOLEAN
    /\ lots \in [Msg -> Nat]
    /\ sansTache \subseteq Msg
    /\ incidents \in 0..MaxIncidents
    /\ arrets \in 0..MaxArrets

(* No message is consumed in vain: a job that ends well, whatever failed   *)
(* and was tried again before, has written tasks, or the AI found none, or *)
(* the author deleted the message.                                         *)
TermineSansPerte ==
    \A m \in Msg : job[m] = "termine" => \/ lots[m] > 0
                                         \/ m \in sansTache
                                         \/ message[m] = "efface"

(* The tasks of a message are written again only after an incident, one    *)
(* time for each: outages of the AI, and retries asked for by hand, never  *)
(* duplicate them.                                                         *)
DoublonParIncident == \A m \in Msg : lots[m] <= incidents + 1

(* A queued message does not stay "not processed yet" for ever: its job    *)
(* ends, well or badly, however often the AI is down.                      *)
JobAboutit == \A m \in Msg : (job[m] = "attente") ~> (job[m] \in {"termine", "echoue"})

-----------------------------------------------------------------------------
(* What the documentation says and the code does not do, refuted by a run. *)

(* "Nothing is lost while it processes" (docs/organizer), and a failure    *)
(* for good is shown so that nobody waits for a message in silence: a      *)
(* message whose processing has failed for good shows on its Subject.      *)
EchecVisible ==
    \A m \in Msg : (message[m] = "present" /\ job[m] = "echoue" /\ m \notin aSignaler)
                      => echecSubject

=============================================================================
