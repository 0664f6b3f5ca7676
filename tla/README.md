# onoffix: specifications and proofs

TLA+ modules about onoffix: its API (`src/apps/api`, NestJS, Prisma/PostgreSQL,
BullMQ/Redis, socket.io) and the web application that calls it (`src/apps/web`, Next.js),
their TLC configurations, and theorems about them checked by TLAPS. Names are those of the
source (French). Paths are relative to `src/apps/api/src`, or to `src/apps/web/src` for the
web application, unless they start with `src/`.

    tlc -workers 2 -config cycle_acteurs.cfg MCTacheCycle
    tlapm TacheProofs.tla

## 1. The system

An *organisation* has members with a global role (`ADMIN` "Authority", `MANAGER`,
`MEMBRE`) and one owner; members join *offices* (`Bureau`). Work is made of *projects*
and *tasks*; an *Organizer* is a project in which people write messages, grouped in
*Subjects*, and an AI turns each message into tasks.

The API is one Node.js process. A request is a chain of awaited database statements,
nearly always without a transaction, so that the statements of concurrent requests
interleave, and a stop of the process leaves a request half done. Background work runs in
two BullMQ queues (Organizer messages; rituals and task alerts). The components meet in
the database: `taches` reads the memberships `bureaux` and `organisation` write, the
Organizer's worker creates the tasks `taches` moves, and the role in an access token
(`auth`) may be older than the one in the database.

The web application uses no data library: each page fetches, keeps its own state, may poll
every 20 seconds, and shares with the others a cache (`lib/page-cache.ts`) and one pair of
tokens in `localStorage` (`lib/api.ts`). Chat windows listen to a socket.io room besides.

| Component | State | Operations | Hard part | Correct when |
|---|---|---|---|---|
| Task life cycle (`taches`) | `Tache`, `TacheAssignee`, `TacheSession` | assign, accept, hand back, start, pause, resume, declare, cancel, validate, reopen, delete | long sequences by several people; staff changes; two requests on one row | one open session per person, none before the start; dates in order; personal tasks stay private; an engaged task keeps its assignee; somebody can always move it on |
| Task cards (`components/tasks`, dashboard, modal) | buttons | the same, as offered | conditions written twice, in the client and in the API | what is shown is accepted, but in the cases listed |
| Statistics (`organisation`, `bureaux`, `projets`) | sums over sessions and tasks | totals, evolution, journal, report | midnight, open sessions, tasks handed back | each instant and each validation counted once, everywhere the same |
| Blockers (`taches`) | `TacheBlocage`, `Tache.sante` | report, resolve, retract, recalculate | count-then-update across requests, crash in between | health follows the active blockers |
| Organizer's queue (`organizer`, `chat`) | `Message`, BullMQ job, `Conversation.dernierEchecTraitement` | write, queue, process, retry, report failure | failure between any two steps, retries | nothing lost, no silent duplicate, every job ends, failures shown |
| Task alerts (`queue`, `taches`) | `Tache.alerteA`, delayed job | set, move, cancel, send | row and job written separately, active job | one reminder, at the last time set |
| Subjects (`organizer`, `chat`, Tasks tab, chat) | `Conversation`, tasks under it, the chat's list | create, archive, delete, duplicate, regroup | count-then-act, answers out of order | one Subject at least; the chat never stays on one that is gone |
| Offices, invitations (`bureaux`) | `Bureau`, `UserBureau`, `BureauInvitation` | create, delete, invite, accept, leave | creation against promotion, limit of 10 | admins in every office, an Organizer in each |
| Organisation (`organisation`, `admin`) | `Organisation`, `User`, `Account` | roles, ownership, add, remove | check-then-act on the owner; orphan accounts | the owner an admin, no account left over |
| Rights (guards, controllers, pages) | - | who may call what, who is shown what | three places that must agree | a page that is offered can be opened, a button shown is granted |
| Accounts (`auth`, web session) | `RefreshToken`, the pair in `localStorage`, the screen of each tab | log in, renew, switch, log out, reset, ban | find-then-revoke; tabs that share a pair | the pair kept can be renewed; a tab acts for whom it shows |
| Reports (`rapports`, reporting pages) | `Rapport`, `RapportJour`, `RapportMention`, drafts | create, save, share, mention, delete | several statements per save; requests of one page that overlap; reloads; what a failed save still writes | one person's text, not a mixture; a mention told once |
| Chat (`chat`, chat window) | `Message`, read times, rooms, what is shown | open, write, delete, load, read | events and histories that do not know of each other; cuts | the open room is joined; what is written is shown; what is seen is read |
| Pages (`app/(app)`, panels) | state, cache | load, poll, act | answers in any order, failures, page left | the right office's data, nothing invented, own changes visible |
| Notifications, push, e-mail, storage, AI client, platform administration | - | I/O | - | in part, see section 6 |

`PROJECT.json` lists the components with their sources, and under `hazards` what is hard
to test in this code, each at its line, with the property that covers it or the reason why
none does.

## 2. Modules

| Module | Models | Proofs |
|---|---|---|
| `TacheCycle` | one task's life cycle, one action per request | `TacheProofs` |
| `TacheRequetes` (extends `TacheCycle`) | the same requests statement by statement, overlapping; refines `TacheCycle` | `TacheProofs` |
| `Statistiques` (extends `TacheCycle`) | session rows, days, every figure computed from them | |
| `TacheEcran` (extends `TacheCycle`) | the buttons of task cards, beside the API's answers | `TacheProofs` |
| `Blocages` | blockers and health of a task, one action per statement | `TacheProofs` |
| `OrganizerJobs` | message, job, tasks, failure; one action per await | `OrganizerProofs` |
| `Alertes` | alert, delayed job, worker | `AlertesProofs` |
| `Sujets` | Subjects and their tasks, Tasks tab, chat's list | `OrganizerProofs` |
| `Membres` | offices, members, roles, ownership, accounts, statement by statement | `MembresProofs` |
| `Droits` (extends `Membres`) | guards of the API, calls and buttons of the pages | `MembresProofs` |
| `Comptes` | refresh token rows and the web client that holds the pair | `ComptesProofs` |
| `Conversation` | chat window, gateway, room, history | `ConversationProofs` |
| `Rapports` | a report, its mentions, the pages that edit it | `RapportsProofs` |
| `Pages` | loading, polling, cache and changes of 26 pages and panels | `PagesProofs` |
| `MC...` | the instances TLC checks | |

Each module has variables of its own, except that four extend another one: a component
that reads or details the same rows shares them (`EXTENDS`), components that touch the same
row in disjoint columns are apart. A task's status and its health are written by disjoint
handlers; the worker's only effect on a task is to create it (`CreerParIA` in `TacheCycle`,
`CreerTaches` in `OrganizerJobs`); the staff changes that `TacheCycle` allows at any moment
(`Equipe`) are what `Membres` details.

### TacheCycle

State: the row (`tache`, whether it `existe`), its co-assignees, the number of open
sessions of each user (`ouvertes`), and what the handlers read around them: the role in
each token, the memberships of the task's office, the accounts not removed. `tache.proprio`
is the owner of a personal project, `Nul` for an office task.

Each public method of `taches.service.ts` that changes this state is one action, its
guards the method's checks in conjunction, its effect every statement the method makes:
`retourner()` removes the co-assignment, closes everybody's sessions and rewrites the row in
one step. This is what the requests promise when two of them do not overlap on the task;
`TacheRequetes` says what is left of it when they do. Creations come from
wherever the code creates a task: the personal and office Organizer, the AI worker,
projects, plans and duplicates (a duplicate, personal or not, has no assignee).

The people around the task move too (`Equipe`): a new token brings a new role, users join
and leave the office, a user is removed from the organisation with the cascades and
`SET NULL`s of the schema.

Abstracted: text fields, priority, due date, comments, `dateAssignation` (which leaves
`modifier()` without effect here), notifications. The owner of the organisation is
constant. A user removed from the organisation makes no more requests; his token would
live on until it expires when his account belongs to another organisation as well. The
model has one row, which may be deleted and created again.

### TacheRequetes

Reading the row with every check is one step (`Charger`); each write statement after it is
another, in the order of `Programme`. Requests, staff changes, the clock and a stop of the
process come in between. `isole` is a history variable, true until something overlaps.

`ImplementeLeCycle` is the refinement: `Cycle == INSTANCE TacheCycle WITH tache <-
TacheAchevee, ouvertes <- OuvertesAchevees`. A request happens, for `TacheCycle`, at its first
write: from then on the mapping shows the row and the sessions as they will be when the
request's remaining statements are done. As long as `isole` holds, every step is a step of
`TacheCycle` or a stutter. With overlap, `SessionsBornees` and `PersonnelleProtegee` say what
is left. A write fails when the row is gone, or when it names an account that is
(`Nommes`: the foreign keys a statement sets), not because the requester's own account went.

### Statistiques

`TacheCycle` counts open sessions; here they are rows (`sessions`), created and closed with
those counts, on days of `JourLong` instants. The figures are operators translated from
`getMembreStats()`, `getEvolution()`, `getMembreJournal()`, the office's and the project's
reports and the check-in. Every figure is a sum over tasks, so that one task tells whether
an instant or a validation is counted, where, and once. The reference is the set of instants
at which a person worked (`Travaille`).

### TacheEcran

For each place a task is shown in (list of the office, own tasks, check-in, task modal,
dashboard) the conditions under which each button appears, and beside them the conditions
under which the API accepts (`TacheCycle`). The card is up to date with the row; a stale one
only gets an error, and is the subject of `Pages`. The two do not agree everywhere:
`CasDeRefus` lists where they differ, each case is a finding, and `RefusExacts` says in both
directions that the list is right: a shown button is refused in those cases and in no other.

### Blocages

State: the blockers (`lignes`: absent, active or resolved, with their author), the task's
health, and for each concurrent request the await at which it stands. `creerBlocage()` is
one transaction, hence one action; `resoudreBlocage()` is an update, then a count, then
perhaps an update of the health; `retirerBlocage()` reads and checks, deletes, and then
counts and updates as well. `Panne` is a stop of the process: rows stay, requests vanish.
`recalculPerdu` is a history variable, true when such a stop has cut the recalculation of
the last blocker short, until the health is next written.

Abstracted: type, cause, responsible person. The task, its assignees and managers do not
change here (`TacheCycle` changes them), so no author is removed. Blocker ids are reused
once no request holds them, which stands for the fresh uuids of the code.

### OrganizerJobs

State: the message rows, BullMQ's job of each message (whose state, while it runs, is the
await at which `process()` stands), the attempts made, the `failed` events being handled,
the Subject's failure flag, and the number of times the message's tasks were written. Any
database statement may fail and the process may stop (`Incident`); the AI may fail at any
time, without bound.

BullMQ is external and modelled from its use here: one worker running one job at a time
(the default concurrency), 4 attempts with a backoff, so that waiting jobs start in any
order; `retry()` of a failed job keeps or resets the attempts made, the model allows both;
a job whose worker stopped is given back to the queue. A job that stalls a second time
fails for good in BullMQ: this is bounded out (`MaxArrets` is 0 or 1). The loop of
`retryFailedProcessing()` is one action per message. Messages without text, for which the
worker does nothing, and the deletion of the whole Subject are left out.

### Alertes

The row's `alerteA`, the delayed job `alerte:<id>` and the worker (`rituels.processor.ts`).
A date is the number of the setting it comes from, and a delayed job may become due at any
time. `setAlerte()` reads, writes the row, removes the job, adds one: four steps, two calls
at a time. Redis may fail at either call to it, the worker at any await, the process may
stop. BullMQ is external: an active job cannot be removed, an id that is still known is not
added again, and finished jobs are kept. The id contains a colon and is taken to be
accepted: with a version of BullMQ that refuses such ids every `setAlerte()` ends in the step
`PanneRedis` after the row was written, and no alert is ever sent.

### Sujets

Conversations of one Organizer with the tasks under them. `deleteSubject()` and
`archiverSubject()` read the list and then write; `dupliquerSubject()` reads the tasks and then
copies them; regrouping tasks into a new Subject (`handleRenameNoSubject()`,
`tasks/page.tsx:166`) creates it and then moves the tasks with one call each, in any order
(`Promise.all`), so that a task refused leaves the Subject behind. The Tasks tab counts what
its filter shows before it deletes; the chat (`subjects-chat.tsx`) polls its list and keeps or
replaces the active Subject as answers arrive.

### Membres

`Programme` gives the statements of each handler after its checks: creating an office
(office, admins, memberships, Organizer), promoting (role, offices, memberships), transferring
the ownership, removing a member (row, count, account), accepting an invitation. Handlers of
one statement are one step. A stop leaves the rest undone; `manques` and `orphelins` record
what is missing because of it, `croise` that two requests on roles or ownership overlapped.
Other organisations are reduced to whether an account has a row there.

### Droits

The guards of the controllers, the routes, the calls of `lib/api.ts`, and for each page the
calls it needs before it shows anything and the buttons it shows to whom. All of them look
only at a *situation* (role, membership of the office, ownership, who is looked at). The
tables are evaluated once per situation; `PagesTenues` is checked in the states of `Membres`,
which are the situations that occur.

### Comptes

One account, its `User` rows (one per organisation), their live refresh token rows, and the
tabs of a browser that share one pair of tokens. A call that gets a 401 has its tab renew the
pair once for all its waiting calls (`refreshPromise`), and is sent again. `refresh()` looks for
the row, revokes it, and creates the next one: three statements. Around it: logging in,
switching organisation, logging out, the socket's own renewal, expiries, resets, bans,
removals, restarts, lost requests and lost answers. All refresh tokens of one `User` agree in
the 72 bytes bcrypt compares, so that any live row of that `User` matches whichever token is
presented: the model says it so, since it decides what two tabs do to each other.

A tab may have any of its calls in hand at a time: those of its page, a login, a switch, a
logout (the menu's, or after five hours without activity). `AuthProvider` sits in the root
layout, so that a tab may show somebody, or be asking whom, while its login form is sent. The
login pages store the pair and go on in the same page; the switcher has the browser load
`/dashboard`, and until it has left the page (`quitte`, then `Partir`) the page's calls go on.
Two history variables: `rompu`, a session was ended on purpose or by a failure; `substitue`, a
pair was stored while another tab of the browser went by another user, or by a login while
calls of the tab itself did.

### Conversation

One window, its socket, the gateway's handlers that await the database and overlap (`Fil`),
and histories on their way (`Requete`). The socket delivers in order and may be cut; nothing
orders its events with the histories. Every window is mounted anew for another conversation
(`key={active.id}` in `subjects-chat.tsx:231`, `key={conversationId}` in
`chat/[conversationId]/page.tsx:72`, a dynamic segment for an office), so that an answer asked
for by the former window sets nothing; `handleLoadMore()` itself looks at no conversation. Offices, Subjects and direct conversations differ in
the events they listen to and in who marks what as read. The page size is 1, so that a
history and an older page are told apart with two messages.

### Rapports

A report has two parts written by different statements: its head, and the days of a weekly
one, taken as one part written at once. A save checks, writes, synchronises the mentions,
tells the people newly mentioned, and the page reloads. Pages have a draft each; somebody
else's save, a change of visibility or the deletion may come between any two statements.

Requests are kept by place, not by page (`Place`): one page may have several in hand, since
only Save and Cancel wait, for a save; what a page asked for goes on after it was left
(`Quitter`), and then sets nothing. The days are written by a `Promise.all`, as are the
notifications: when one fails the page has its error at once and the others land later, maybe
in the middle of another save. `Echouer` leaves such a late write behind (`Restant`), as a
request of one statement.

`enCours` is a history variable: what the last save to begin sent, whose it is, and whether it
met another one (a late write included) or found no days to write.

### Pages

A page is a record of its habits, read in its source: whether it polls (`sonde`), what a change
of what it is about does (`choix`: there is none, another page is mounted, or the same page
keeps its state and loads again), whether it uses the cache, what it does after its changes
(`actes`: load on success, load whatever happens, show the answer, apply the change after the
call or before it), how many calls a change takes (`ecritures`), and whether a change applied
on the spot is put in the cache (`retient`). One instance is one page; its state is what it
shows, the cache and the calls under way, whose answers arrive in any order, also after the
page was left.

## 3. What is checked

Properties are stated with their meaning in the modules.

| Run | Bounds | Distinct states | Shows |
|---|---|---|---|
| `cycle_acteurs` | owner, manager, collaborator; 3 changes of staff; 2 instants | 122,986 | `SessionUnique`, `ChronoEteintAvantDemarrage`, `PersonnelleResteAuProprietaire`, `RefusExacts`, `PasDImpasse`, `EngageeJusquAuDepart` |
| `requetes` | 2 people, 2 requests, 2 instants, no change of staff | 1,890,701 | `SessionsBornees`, `PersonnelleProtegee`, `ImplementeLeCycle` |
| `statistiques` | 2 people, 2 days of 2 instants, 2 sessions | 330,516 | `DatesOrdonnees`, `EvolutionFidele`, `ChiffresDAccord`, `PasseImmuable` |
| `blocages_sante` | 3 requests, 3 blockers, 2 users, crashes at will | 48,027 | `NormaleSansBlocage`, `SanteRetrouvee` |
| `organizer_jobs` | 2 messages, 2 attempts, 1 incident (a failed statement or a stop) | about 290,000 | `TermineSansPerte`, `DoublonParIncident`, `JobAboutit` |
| `alertes` | 4 calls, 2 at a time, 1 incident | 757,908 | `UnSeulEnvoi`, `Accord`, `AlerteFinit` |
| `membres` | 2 people, 2 requests, limit of 1 office, 3 identities; 4 scenes | 741,898 | `BureauxEnRegle`, `ProprietaireAutorite`, `CompteRattache`, `PagesTenues` |
| `sujets` | 3 Subjects, 2 tasks, 2 requests; 4 scenes | 799,393 | `DernierSujet`, `ChatSuit` |
| `comptes` | 1 browser, 2 organisations, 2 tabs or 2 calls of a tab at a time, 1 row told apart per User; 3 scenes | 871,068 | `PaireUtilisable`, `EcranSuitLesJetons`, `AppelAboutit` |
| `conversation` | 2 conversations, page of 1, 2 handlers, 2 histories, 2 messages; 7 scenes | 4,986,608 | `DansLaSalle`, `VuEstLu`, `SurAffiche` |
| `rapports` | 2 people, 3 requests, 2 in hand at a time, 1 text, 1 incident; up to symmetry | 3,213,548 | `UnSeulEnregistrement`, `ConfirmeEcrit`, `MentionAnnoncee` |
| `pages` | each of 26 pages (21 different sets of habits); 2 keys, 2 calls, 3 changes, 2 mountings, 1 failure | about 1,190,000 | `AfficheDuChoix`, `RienDInvente`, `PropreVisible`, `Rafraichi` |

Type invariants (`TypeOK`, `TypeSante`, `TypeRequetes`, `TypeStats`, `TypeRapports`,
`TypeSujets`) hold in the same instances and are not listed in these runs; except for
`Statistiques` they are proved.

Why the bounds suffice.

* `cycle_acteurs`: three users are the three roles that guards tell apart, with a principal, a
  co-assignee and an outsider at once; three changes of staff allow somebody to leave, to be
  replaced, and to come back. Dates do not matter to it: a `VIEW` leaves them out. Also
  checked with six changes: 483,462 states, no error.
* `requetes`: a race is between two statements of two requests; more requests only bring more
  of the same pairs, and `SessionsBornees` is stated in their number. The staff changes that
  also come in between were checked with a shorter clock (1 change, 1 instant: 5,352,273
  states, no error, beyond what a regular run should take). A `VIEW` leaves out four columns
  nobody reads.
* `statistiques`: dates are only compared; four instants separate start, declaration, decision
  and a rework, on two sides of a midnight. Also checked with a change of staff and three
  instants: 909,084 states, no error.
* `blocages_sante`: the recalculation races need two requests that end blockers and one that
  reports one.
* `organizer_jobs`: two messages are what it takes for one job to touch the other's failure;
  two attempts give a first, retried failure and a last one.
* `alertes`: four calls set, cancel and set again while another one overlaps; one incident is
  enough to part the row from Redis.
* `membres`: two requests race; a limit of one office is reached and exceeded at once. The
  scenes keep apart what does not interact: the limit; offices with roles; the owner with
  roles; accounts in two organisations.
* `sujets`: three Subjects let two requests each leave one to the other; the scenes are
  deletions against archivals, deletions under the chat, archivals under the chat, and the
  tasks.
* `comptes`: the scenes are two tabs that race; one tab of two organisations with two of its
  calls in hand, whichever they are; one tab with a revocation and a network failure. Whether
  there is a row to find decides, not how many: with two rows told apart and without
  `AppelAboutit` 3,705,423 states, no error. `comptes_ecran.cfg` checks `EcranSuitLesJetons` also
  with two tabs of two organisations: 1,635,426 states, no error. There the two organisations
  and the two tabs are interchangeable (`SYMMETRY`), and `NonSubstitue` stops at states about
  which the property says nothing (`substitue` is never taken back).
* `conversation`: the scenes are going from one conversation to another and back, two cuts
  of a room, deletions, and older pages. With a page of one message, "less than a page was
  written after it" (`Recentes`) means the last message written.
* `rapports`: two saves and a third request between their statements, of one page or of two;
  one text tells what was sent from what was there before, an incident leaves a late write. The
  two places are interchangeable. `rapports_mentions.cfg` checks `MentionAnnoncee` with two
  changes of mentions, which a mention taken back and added again needs, without texts nor
  incidents: 3,376,962 states, no error. The theorems hold for any number of people, places
  and texts.
* `pages`: two calls give every order of two answers; two mountings, a late answer of the
  page that was left.

`CHECK_DEADLOCK FALSE` is set for `organizer_jobs`, `conversation`, `pages`, `alertes`,
`rapports` and `sujets`, where the bounded numbers of messages, openings, calls or requests
may all be used up. Every other run checks deadlock.

**Fairness** is assumed of the program's own steps, never of people, of the network's
failures, of retries asked for by hand, or of the AI's recovery.

* `Blocages`: each request's next step, since the event loop resumes a request whose
  statement has answered.
* `OrganizerJobs`: the same of a running job; strong fairness of starting a waiting job, since
  the queue is first in, first out, and a job is not passed over for ever by others that
  are retried. `JobAboutit` holds during an outage of the AI that never ends, because attempts
  are counted.
* `Alertes`: steps of a call, and of the worker: BullMQ delivers a job that is due, and a call
  that waits for Redis is answered.
* `Comptes`: the next step of a call and of a renewal: a request is answered or fails
  (`fetch` rejects).
* `Pages` and `Sujets`: the interval fires (`setInterval`), calls are answered, answers are
  taken.

### What the runs show

* **One task.** Whatever requests follow each other and whoever leaves, nobody has two open
  sessions, none runs before the start, personal tasks stay with their owner, an engaged task
  keeps an assignee until somebody leaves, and
  somebody is always able to move the task on, unless everybody has left its office. When requests overlap, double clicks can give
  one person several open sessions, never more than the requests in hand.
* **Task cards.** Not every button shown is accepted. The browser decides by status and
  assignee; the API asks besides for membership, for a session of one's own, and for a task
  that is to do when it is accepted. That parts them in three cases (Accept of a task whose
  assignee was removed, the cards of somebody who left the office, Break on somebody else's
  session), and, which is what the run and the theorem show, in no other.
* **Figures.** Each instant worked is counted once and on its day. A member's total differs
  from the evolution beside it exactly when a session ended after the period: the first keeps
  the sessions that ended within it, the second cuts them.
* **Alerts.** Rows and jobs agree as long as calls do not overlap and nothing fails. They do not
  otherwise; even then, an alert is sent once, but for a stop between the notification and the
  row.
* **Members.** An office created while somebody is promoted has its admin: each handler writes
  before it reads. The limit of offices can be exceeded by overlapping creations, by one less
  than there are of them.
* **Web session.** Two tabs may revoke each other's row, but a pair that can be renewed is left;
  every call waiting on a shared renewal ends. The complete reload after a switch does what it
  is for: whatever was in hand, the tab then shows whom its tokens name. A login has no such
  reload, and on a tab that was still asking whom it shows, or renewing, it can end with
  another user on the screen than the tokens name (`EcranSuitLaConnexion`, refuted); so can
  another tab's switch, until the page is loaded again. `EcranSuitLesJetons` excepts both.
* **Reports.** The text is one save's unless saves met, one failed, or the days were missing.
  What a failed save had under way may land in a later one; nothing in the code excludes it.
* **Pages.** Late answers never show another office's data on a page that is mounted again for
  each office; the calendar and the performance page keep their state, and are excluded from
  `AfficheDuChoix`. A page that polls comes back in line.
* **Chat.** The socket of an open window ends up in its room however often it was cut, what a
  direct conversation shows ends up read, and what was written while the window was settled is
  on display. `SurAffiche` stops at messages after which a whole page was written: after a cut
  the window has the last page only, and when a message of it is deleted an older one moves
  into the last page of the server without anything being read again.

### Where the code departs from what it says

Each of these statements of the source is an operator of a module, refuted by TLC with the
configuration named (one statement at a time: TLC stops at the first). `PROJECT.json` quotes
the sentences under `findings`.

| Configuration, module | Statement | What the code does |
|---|---|---|
| `cycle_refutees`, `MCTacheCycle` | `ChronoSuitLeCycle` | reassigning a running task leaves the first person's session open |
| | `ValideeEstFinal` | `retourner()` works from `VALIDE` |
| | `SeulUnManagerValide` | who accepts an unassigned task becomes its assigner and may validate it |
| | `SignalerOffert` | the form for blockers is shown to managers, whom the API refuses, and hidden from co-assignees |
| | `PersonnelleCochable` | the copy of a personal task has no assignee, and can be neither checked nor accepted |
| | `ReassignerDonneLaTache` | the dashboard's "Reassign" adds a co-assignee |
| | `AccepterSelonLeStatut` | "Accept" is shown on a task without assignee that is no longer to do, and refused |
| | `DemarrerSelonLeLecteur` | "Start" and "Done" are shown to an assignee who has left the office, and refused |
| | `PauserSaSession` | "Break" is shown while only somebody else's session runs, and refused |
| `blocages_bloquee`, `MCBlocages` | `BloqueeTantQueBlocage` | a blocker reported between the count and the update is overwritten |
| `organizer_echec`, `MCOrganizerJobs` | `EchecVisible` | another message's success clears the Subject's failure |
| `statistiques_rejeu`, `MCStatistiques` | `RapportToujoursRejouable` | a validated task handed back is validated and never started |
| `comptes_session`, `MCComptes` | `JeteSeulementSiFinie` | a second tab that renews between revocation and creation clears the pair both share |
| | `EcranSuitLaConnexion` | a call of the former session ends after a login, and shows or stores its user |
| `conversation_resynchro`, `MCConversation` | `Resynchronise` | a message written between the history and the room is missed |
| `rapports_refutees`, `MCRapports` | `PriveIntrouvable` | a mention in a private report is announced with its name |
| | `BrouillonGarde` | the reload after an image replaces what was typed (a wish, said nowhere) |
| `sujets_refutees`, `MCSujets` | `UnSujetActif` | deleting counts archived Subjects |
| | `CopieDesActives` | duplicating copies validated tasks |
| | `AnnonceComplete` | the dialog counts the filtered tasks, all are deleted |
| | `ArchiveMasque` | the chat lists archived Subjects |
| `membres_refutees`, `MCMembres` | `MembresPourTous` | the page of members waits for a call reserved to Authorities |
| | `StatistiquesOffertes` | "Task stats" is shown to people who are refused |
| | `JournalDuManager` | a manager is refused the journal of a member |
| | `CalendrierSupprime` | the calendar offers to delete office tasks |
| | `PersonnelPrive` | the organisation's calendar lists personal tasks |

Three more come from reading and have no property: after a refused renewal the socket relies
on the next call to redirect, which only clears the tokens (`lib/socket.ts:33`); the chat
window takes any message that names a conversation as one of its own
(`components/chat/chat.tsx:375`); the worker sends an alert that was moved while its old job
was starting (`queue/rituels.processor.ts:54`).

## 4. What is proved

For every set of users, tabs, messages, requests and blockers, and every value of the
bounds, under the named assumptions of the modules' constants:

| Theorem | States |
|---|---|
| `TacheProofs!TypeCorrect` | `Spec => []TypeOK` |
| `TacheProofs!SessionUniqueCorrect` | `Spec => []SessionUnique` |
| `TacheProofs!PersonnelleCorrect` | `Spec => []PersonnelleResteAuProprietaire` |
| `TacheProofs!ChronoEteintCorrect` | `Spec => []ChronoEteintAvantDemarrage` |
| `TacheProofs!DatesCorrect` | `Spec => []DatesOrdonnees` |
| `TacheProofs!EngageeCorrect` | `Spec => EngageeJusquAuDepart` |
| `TacheProofs!RefusExactsCorrect` | `Spec => []RefusExacts` |
| `TacheProofs!PasDImpasseCorrect` | `Spec => []PasDImpasse`, if the owner starts as an `ADMIN` |
| `TacheProofs!RequetesTypeCorrect` | `SpecRequetes => []EnRoute` (types, and where each request stands) |
| `TacheProofs!SessionsBorneesCorrect` | `SpecRequetes => []SessionsBornees` |
| `TacheProofs!PersonnelleProtegeeCorrect` | `SpecRequetes => []PersonnelleProtegee` |
| `TacheProofs!RaffinementCorrect` | `SpecRequetes => ImplementeLeCycle` |
| `TacheProofs!BlocagesTypeCorrect` | `SpecSante => []TypeSante` |
| `TacheProofs!NormaleSansBlocageCorrect` | `SpecSante => []NormaleSansBlocage` |
| `OrganizerProofs!OrganizerTypeCorrect` | `SpecJobs => []TypeOK` |
| `OrganizerProofs!TermineSansPerteCorrect` | `SpecJobs => []TermineSansPerte` |
| `OrganizerProofs!DoublonParIncidentCorrect` | `SpecJobs => []DoublonParIncident` |
| `OrganizerProofs!SujetsTypeCorrect` | `Spec => []TypeSujets` |
| `OrganizerProofs!DernierSujetCorrect` | `Spec => []DernierSujet` |
| `AlertesProofs!AlertesTypeCorrect` | `Spec => []Types` |
| `AlertesProofs!UnSeulEnvoiCorrect` | `Spec => []UnSeulEnvoi` |
| `AlertesProofs!AccordCorrect` | `Spec => []Accord` |
| `ComptesProofs!ComptesTypeCorrect` | `Spec => []Types` |
| `ComptesProofs!PaireUtilisableCorrect` | `Spec => []PaireUtilisable` |
| `ComptesProofs!EcranSuitLesJetonsCorrect` | `Spec => []EcranSuitLesJetons` |
| `MembresProofs!MembresTypeCorrect` | `Spec => []Types` |
| `MembresProofs!BureauxEnRegleCorrect` | `Spec => []BureauxEnRegle` |
| `MembresProofs!ProprietaireAutoriteCorrect` | `Spec => []ProprietaireAutorite` |
| `MembresProofs!CompteRattacheCorrect` | `Spec => []CompteRattache` |
| `MembresProofs!PagesTenuesCorrect` | `Spec => []PagesTenues` |
| `PagesProofs!PagesTypeCorrect` | `Spec => []Types` |
| `PagesProofs!MontreLeChoix` | `Spec => []AfficheDuChoix` |
| `PagesProofs!JamaisInvente` | `Spec => []RienDInvente` |
| `PagesProofs!MontreLesSiens` | `Spec => []PropreVisible` |
| `ConversationProofs!ConversationTypeCorrect` | `Spec => []Types` |
| `ConversationProofs!DansLaSalleCorrect` | `Spec => []DansLaSalle` |
| `ConversationProofs!VuEstLuCorrect` | `Spec => []VuEstLu` |
| `ConversationProofs!SurAfficheCorrect` | `Spec => []SurAffiche` |
| `RapportsProofs!RapportsTypeCorrect` | `Spec => []TypeRapports` |
| `RapportsProofs!UnSeulEnregistrementCorrect` | `Spec => []UnSeulEnregistrement` |
| `RapportsProofs!ConfirmeEcritCorrect` | `Spec => []ConfirmeEcrit` |
| `RapportsProofs!MentionAnnonceeCorrect` | `Spec => []MentionAnnoncee` |

### Assumptions

The constants' assumptions say that `Nul` is nothing else, that roles are roles and the
owner is a user, that numbers are numbers, that the sets of requests are finite and not
empty where they are counted (in `Rapports` the places, not the members), that
attempts are positive and there is at most one stop (`OrganizerJobs`). Four need a word.

* `Comptes`: `MaxLignes`, the number of live rows of one `User` told apart, is positive, and
  `Nul` is neither a user nor a row. Nothing is assumed of the calls of a tab.
* `Membres`: identities of offices and of users are different, as those of two tables are;
  `organizers` holds both, since an Organizer belongs to an office or to a person.
* `Pages`: a page has the habits of one of the pages of the source as far as the proofs need
  it: one that keeps its state when its choice changes (the calendar, the performance page)
  applies nothing on the spot. `Nul` is neither data nor a set of changes.
* `Conversation`: `Page` is positive, `Nul` is no list and no conversation, and the sets of
  handlers and of histories are finite.

`PasDImpasseCorrect` has a hypothesis of its own: the owner of the organisation starts as an
Authority. The code creates him so, and `ProprietaireAutoriteCorrect` says when he stays so.

### The arguments

One task:

* `SessionUnique` follows from one lemma, `PasDesSessions`: a step leaves the sessions as
  they are, closes all, closes one person's, or makes sure one person has exactly one.
* `PersonnelleResteAuProprietaire` and `ChronoEteintAvantDemarrage` need the strengthening
  `SansLigne`: while there is no row nothing hangs from it, so that a newly created task
  inherits neither co-assignees nor sessions. A personal task can be loaded only by its
  owner, so every step on it is its owner's.
* `DatesOrdonnees` needs `DatesBornees`: no date lies in the future, so that the date a step
  writes comes after those already there. A first start survives reworks because
  `A_REVOIR` keeps `dateDebut`, which the invariant says is set.
* `RefusExacts` compares two tables written apart, button by button: outside the cases of
  `CasDeRefus` what makes a button appear implies the guards of the API, once the invariants
  above rule out the rows on which they differ (a personal task with somebody else on it, a
  validated personal task without assignee to uncheck); inside them one guard fails.
* `PasDImpasse` rests on `Presents`: whoever a task names has an account, and the owner keeps
  account and role. Each status then has its way on: the owner's check box of a personal task,
  the office's members who may accept or assign, the person it is assigned to, and for a
  decision the Authority.

Overlapping requests (`TacheRequetes`):

* `EnRoute` strengthens the type invariant: a request stands at a suffix of its own program
  (`RestesDe`), with the arguments and the earlier reading its operation has. Sequences of
  statements are reasoned about through a few lemmas on their heads and tails.
* `SessionsBornees` is inductive given `EnRoute`: a request comes to wait for the insertion of a
  session only in a step that finds the person without any (`AttenteApresRecherche`), so that
  then the requests that wait are all there is to count; an insertion turns one that waits
  into a session.
* `PersonnelleProtegee` is inductive once every request in hand on a personal task is known to
  be its owner's (`PersonnelleInv`): no stale update has anybody else to write.
* `ImplementeLeCycle`: `Isolement` says that, as long as `isole` holds, the only request in
  hand is alone and the checks it passed on loading still hold. Loading is a stutter; the
  first write is the whole abstract step, since the mapping shows the row as the remaining
  statements will leave it (`Achevement`); each later statement turns what was announced into
  what is, and stutters. `reprendre`, whose first statement is a search, happens when its
  session is created. Staff, clock and creations are steps of `TacheCycle` themselves.

Blockers and jobs:

* `NormaleSansBlocage` is inductive with the type invariant: a step that ends the last
  active blocker leaves its own request at the count; a request that counts zero goes on to
  the update; a count above zero means an active blocker is left.
* `TermineSansPerte` is strengthened to every state from the writing of the tasks on
  (`Ecrites`: notifying, noting, ended), and `EcritesEffet` names the only three steps that
  enter them; `JobAvecMessage` adds that a job exists only for a message that was written.
* `DoublonParIncident` is strengthened the same way: before the tasks of the current run
  are written, they were written at most once per incident. Only an incident leaves the
  states of `Ecrites` for the queue: outages of the AI come before `createMany`, and a
  manual retry applies to failed jobs only.
* `UnSeulEnvoi` keeps one notification to spare: a setting the row or the worker still holds
  was sent at most as often as there were incidents. Sending uses the spare one, and only an
  incident lets the row keep a setting already sent.
* `Accord` is read between calls; its strengthening says what row and job are in the middle
  of the only call, or of the worker, for each await it may stand at.

Subjects:

* `TypeSujets` needs `Restes`, where a request of each operation may stand, and `Rangees`: the
  tasks of a Subject go with its row, and what is copied or moved is filed under a row that is
  there when it is written.
* `DernierSujet` needs `Seule`: as long as no request listed the Subjects while another was
  about to take one away, at most one is about to, and what it saw when it listed is still
  so, since only deletions and archivals take a Subject away. The step that lists is the only
  one that lets a request come that far (`Mouvement`).

Sessions of the web application (`Comptes`):

* `PaireUtilisable` is inductive when it is stated of everything that goes by a pair: a browser,
  a call or a form's answer on its way, a renewal (`Renouvelables`). Whoever revokes a row of a
  user is at `creer` for that user, and `LignesPropres` says the row a renewal revokes is its
  own user's. `issueTokens()` adds a row unless all the rows told apart are live or about to be
  revoked, in which case one is left anyway (`LignesAvecEffet`).
* `EcranSuitLesJetons` needs one user for all that goes by a browser's pair (`Unanime`): the
  pair stored (`Tient`) and, of each tab that is not being left by a switch, its calls on their
  way, its renewal and its screen, unless it is asking who it is (`Suit`). A pair of another
  user is stored by a switch, whose tab is then left with all it had in hand, by a login, or by
  a renewal that outlived its session; `substitue` records when anybody else still went by the
  former pair. A tab that is asking shows, in the end, the user of the pair it asked with.

Offices and members (`Membres`):

* `AdminsPartout`: of a creation of an office and a promotion, each writes its row before it
  reads the other's, so whichever reads last sees the other; a row that is read is added by a
  statement the request still has, and a request cut short leaves its mark in `manques`.
* `BureauxBornes`: the check counts the offices when the request is received; the request then
  waits for its insertion, and an insertion turns one that waits into an office. The bound is
  in the number of requests, proved with the library's facts on cardinalities.
* `ProprietaireAutorite` is strengthened to `ProprietaireTenu`: as long as no transfer met another
  request, the owner is a member; a transfer is alone; nobody demotes or removes the owner;
  the person about to become owner is a member; and the owner is an admin, or the transfer
  that has just named him is about to write it.
* `CompteRattache` names the request that answers for an account without organisation: past
  the removal and not yet past the deletion of the account, or about to create its row.

Rights (`Droits`, in `MembresProofs`):

* `GardesDesAppels` goes from the calls of `lib/api.ts` through the routes of the controllers
  to their guards, and sorts the calls by what they ask of their caller; `Accordes` says which
  situations satisfy each sort. The two halves of `PagesTenues` then go page by page: the calls
  a page waits for and those behind its buttons are of a sort its reader satisfies.
  `PagesTenues` is about the situations in which members stand: by `MembresTypeCorrect` they
  are among those the tables are written for.

Pages:

* The inductive invariant has four parts beside the types. `AppelsJustes`: the answer a call
  carries was true of the server once, and includes what the call itself has already written.
  `ClesJustes`: what is cached under a key is that key's, and the calls of a page that is
  mounted again on each choice are of its choice (a call of the former page is no longer
  `vive`). `Fondes`: what is shown and cached is on the server, or, for a page that applies its
  changes before the call, is still owed by a call under way; a failure breaks the latter,
  which is why `RienDInvente` says so.
* `UnParUn` is `PropreVisible` in the middle of a call: as long as calls did not overlap, the
  one under way shows everything done so far when it ends, or it is shown already, by kind of
  call (`Montrera`).

Conversation:

* `DansLaSalle` follows the room through the queue of the window's events: the window has
  announced that it joins, or nothing it has sent leaves the room any more and it is in it or a
  handler is about to put it there (`SalleSuivie`). It needs the types and nothing else: a
  handler's program tells which of its statements joins.
* `VuEstLu` follows each message of the other person: it is older than the last reading, or
  its event is on its way to the window, or a handler is about to send it; or a reading of the
  whole conversation is ahead (`LuSuivi`). In a direct conversation a window marks as read
  whatever comes while it is open.
* `SurAffiche`: a history that has been read contains the sure messages after which less than
  a page was written (`PagesSures`), and the window waits for such a history or has them, or
  their events are under way in the window's room (`AfficheSuivie`). That the last page
  contains them is a fact about `PageDe`, which takes messages by rank: a message with fewer
  than a page of successors has one of the last ranks (`DansLaPage`), proved with the
  library's facts on cardinalities. Messages written while a history is on its way come by
  their events, which are put at the end of a queue that is emptied in order.

Reports:

* `Vierge` says that until the report is created nobody has a page of it and nothing hangs from
  it, so that its one creation starts from nothing.
* `UnSeulEnregistrement` and `ConfirmeEcrit` share an inductive invariant (`TextesInv`). As long as
  the last save to begin has met no other, it alone is past its first statement, the head is
  what it sent, and so are the days once it is past them; a general report has none. The
  late write of a save that failed counts as one that meets it. The
  first half speaks of the report and needs that no statement failed, since a save cut short
  between its two parts leaves a mixture; the second speaks of a save that goes on, and
  failures do not matter to it. Every step but three (`Creer`, `Ecrire`, `EcrireJours`) is
  `Calme`: it begins no save and writes no text, which keeps both halves (`PasCalmes`).
* `MentionAnnoncee` counts who has added a mention of somebody and has still to tell him
  (`Attendus`): told and still to tell are together what was added, or less after a failure
  or the deletion. `createMany` moves a request into that set, the notification out of it.

Each inductive invariant was checked by TLC on the run of its module before it was proved.

### Only model-checked

* `SanteRetrouvee`, `JobAboutit`, `AlerteFinit`, `AppelAboutit`, `Rafraichi`, `ChatSuit`:
  fairness and `ENABLED` are out of the prover's reach.
* `EvolutionFidele`, `ChiffresDAccord`, `PasseImmuable`: figures are sums over sets of sessions
  and instants, defined by folds; what a fold computes for every set needs induction.
* The statements of section 3 that are refuted.

## 5. Plan

Models: the lazily expiring office alert (`bureaux.service.ts:189`); one-time codes and reset
tokens (`auth.service.ts:429`); the creation of a conversation by two requests at once
(`chat.service.ts:139`); in `Blocages`, the resolved blocker that a concurrent retraction
deletes.

## 6. Not modelled

Layout, icons, forms, the landing page and the documentation pages of the web application;
the typed wrappers of `lib/api.ts`, which only name a URL (`Droits` has their guards), and its
types; PDF and e-mail; prompts and the parsing of the AI's answers; object storage, push
delivery, OAuth, hashing; migrations: I/O and presentation with no state the components
above read back.

Of modelled components, left out because nothing else reads them: edits of a message, the
other person's read receipts, order and photo of offices, sub-tasks, comments and the text
fields of a task. The platform administration is modelled as far as it touches accounts
(`Membres`, `Comptes`); its restrictions and the deletion of an organisation, one cascade over
everything, are not. The recurring jobs of an office (`rituels.processor.ts`) only write a log
line.
