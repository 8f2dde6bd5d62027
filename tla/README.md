# Bluelab backend: a verification project

TLA+ models of the Bluelab backend (`src/`), the TLC runs that check them on
small instances, and theorems about them that TLAPS proves for every instance.
Paths below are relative to `src/src/bluelab/` unless they start with `src/`.

## 1. The system

Bluelab lets sales reps and hiring candidates hold a live call with an AI
buyer, grades the call against a frozen drill, and shows the result to the rep,
the manager or the hiring team. Three planes share two stores:

| Plane | Processes | Writes |
|---|---|---|
| application | the HTTP API (`api/`, `modules/`) | Postgres, Valkey, object store |
| call | the agent seam and webhook of the API (`calls/`), the sweeper (`entrypoints/sweeper.py`), LiveKit and the external agent runtime | Valkey, Postgres |
| work | Procrastinate workers (`work/`, `platform/queue/`) | Postgres, object store, providers |

Postgres (READ COMMITTED, row locks, conditional updates, row policies, freeze
triggers) is the durable truth; a job is a row inserted by the transaction that
causes it. Valkey holds leases, capacity slots, call sessions, recording
coordination, login sessions and throttles, each a single key written by
separate commands. An independent object store keeps the lifecycle history and
the erasure ledger, which survive a restored database.

### Components

| Component | State | Operations | What is hard | What makes it correct |
|---|---|---|---|---|
| Call plane (`api/calls.py`, `calls/*`) | participant lease, slots, session, recovery index; attempt row | request, cancel, bundle, completion, interruption, room_finished, sweep | seven handlers interleave between single commands; crashes; stale reads; deadlines | one live call per participant, a live call keeps what it stands on, every attempt ends, capacity |
| Attempt ledger (`calls/admission.py`, `completion.py`, `interruption.py`, `modules/training/assignment.py`) | attempt, allowance, plan, jobs | T-1, T-2, T-6, reassignment | repeated and racing ends, reassignment in flight | each end happens once with all its effects; stages in order; the plan is reported once |
| Recording (`calls/egress.py`) | egress claim, outcome, recording status, recovery index, faults | start, egress_ended, completion's reconcile, sweep, re-drive, erasure | webhook before, between and after the completion; lost webhook; crash between ZREM and transaction | an available recording exists; a void or erased one is deleted; nothing stays pending |
| Job queue (`platform/queue/*`) | job rows, attempts | enqueue, execute, retry, exhaust | at-least-once delivery, exhaustion after rollback, erased subject, suspended organization | a job's effect at most once, exhaustion visible |
| Grading and review (`modules/review/*`, `work/grade_attempt.py`) | scorecard, attempt status, fault | grade, exhaust, re-drive | a re-driven job racing an old one | one frozen scorecard per attempt |
| Hiring (`modules/hiring/*`, `work/render_report.py`) | position, stages, candidate, tokens, shortlist, report | assess, invite, decide, shortlist, close, render | an invite that freezes while a manager edits; two batch requests; a close between two statements | the assessment an invited candidate faces stands; a sent decision stands; no invite outlives its position |
| Idempotency (`platform/http/idempotency.py`) | key records | claim, store, replay, expire | two equal requests, a request that fails half-way, a key used again after a day | a keyed request takes effect once |
| E-mail (`notifications/*`) | email_send, delivery secret | dispatch, delivery events | crash between send and mark, reordered events | a dedupe key sends at most what was decided |
| Sessions and accounts (`platform/security/sessions.py`, `modules/identity/*`, `api/auth.py`) | account rows, session records, epochs, reset links | sign in, slide, rotate through a gate, sign out, reset, deactivate, move team | the row commits in one store, the revocation follows in the other, requests run in between | an ended session never resolves again |
| Operators (`api/ops_v1.py`, `modules/operations/service.py`, `platform/security/totp.py`) | operator accounts, claimed codes, sessions, audit | sign in with a one-time code, act, page through lists | one code in two requests; rows written while a list is walked | one code opens one session; a walk serves each row once |
| Throttles and circuits (`platform/security/throttle.py`, `platform/resilience.py`) | counters with a time to live; failures, opened-at, probe | hit, hold, clear; attempt, retry, open, probe | requests between two commands; several calls when the circuit opens | no window outlives its length; one probe at a time |
| Knowledge and drills (`modules/knowledge/*`, `modules/drills/*`, `work/extract_facts.py`, `work/generate_*.py`) | documents, fact sets, uploads; drill, its two generations, weights | upload, review, publish; generate, tune, publish, archive | a publication of facts against a generation or a freeze, late workers, superseded requests | what is frozen was written from one set of inputs and facts, the live ones |
| Training (`modules/training/*`, `src/sql/views/*`) | none: views over attempts and scorecards | progress, history, dashboard, roster, deep dive, library, catalog | reps leave and move teams, drills are archived, pages move | the surfaces tell one story; private practice counts nowhere |
| Lifecycle of an organization (`lifecycle/*`, `adapters/lifecycle_history.py`, `work/org_*.py`) | operations, terms, episode, restrictions, purge run and steps; events, head, receipts | prepare, quiesce, finalize, append, apply, discover, purge, restore | crash between the two stores; operators, sweep and worker at once; restored database | the database shows exactly what the history accepted, in order; the purge owes nothing |
| Subject rights (`modules/operations/subject_rights.py`, `work/subject_rights.py`, `adapters/erasure_ledger.py`) | requests, markers, bundles | accept, execute, expire, withdraw | a transaction around calls of an object store, twice for one person | erased stays erased; a bundle in the store is one its row names |
| Operations (`modules/operations/*`) | faults, audit, retention | resolve, re-drive, sweep, reconcile | stale checks | a fault is resolved by what it found |
| Platform (`platform/*`), adapters, schemas, SQL | configuration, errors, telemetry, I/O | - | - | nothing that outlives a request |

## 2. The modules

| Module | Models | Role |
|---|---|---|
| `CallPlane` | `api/calls.py`, `calls/` | the handlers, one action per Valkey command or transaction |
| `AttemptLedger` | T-1, T-2, T-6, `put_assignment` | the abstract specification `CallPlane` implements |
| `Recording` | `calls/egress.py` and every handler that touches a recording | one call's egress, object, keys, row and fault |
| `WorkPlane` | `platform/queue/`, `work/`, `modules/review/`, the report, decision and shortlist of `modules/hiring/`, `notifications/dispatcher.py`, the gate and fence of `lifecycle/` | the jobs an attempt's end enqueues, and what they write; extends `AttemptLedger` |
| `Identity` | `platform/security/sessions.py`, `modules/identity/`, `api/auth.py` | accounts, sessions, gates, resets |
| `Operators` | `api/ops_v1.py`, `platform/security/totp.py`, the operators' sessions, audit and lists | one-time codes, sessions, cursors |
| `Limits` | `platform/security/throttle.py`, `platform/resilience.py` | counters, holds, the circuit breaker |
| `Exports` | `modules/operations/subject_rights.py`, `work/subject_rights.py`, retention of bundles | the bundles of one person |
| `Entry` | - | composes `Identity`, `Operators`, `Limits`, `Exports` |
| `LifecycleHistory` | what `lifecycle/` promises | the abstract specification `Restore` implements |
| `Lifecycle` | `lifecycle/`, `work/org_terms.py`, `work/org_purge.py`, `adapters/lifecycle_history.py`, `calls/suspension.py` | one organization's decisions, its sweep and its purge |
| `Restore` | `lifecycle/restore.py`, `entrypoints/restore_reconcile.py` | extends `Lifecycle` by a backup, a disaster and the command |
| `Authoring` | `modules/knowledge/`, `modules/drills/` and their workers | documents, facts, drills |
| `Hiring` | `modules/hiring/`, `platform/http/idempotency.py`, assignments | extends `Authoring` |
| `Training` | `modules/training/`, the views `v01` to `v08`, the row policies they rest on | extends `Hiring` |
| `Team` | - | one manager's team: composes the three |
| `MC*` | - | instances for TLC |
| `AttemptLedger_proofs`, `CallPlane_proofs`, `Recording_proofs`, `WorkPlane_proofs`, `Entry_proofs`, `Restore_proofs`, `History_proofs`, `Team_proofs` | - | theorems |

### CallPlane

*State.* `leaseOf`/`leaseLeft` are the keys `call:participant:*` and their time
to live; `slotOwner`/`slotLeft` the keys `call:capacity:*`; `session` is the
state field of `call:session:*`; `recoverIn` is the entry of the sorted set
`call:recovery`, as time left. `owner`, `mode`, `stage`, `slotOf` are the
immutable fields of a call. `attempt`, `restart`, `used`, `grant`, `closed`,
`gradeJobs`, `reportJobs` are the rows and jobs in Postgres. The other variables
are program counters of handlers and the agent runtime.

*Actions.* A handler is a program counter; each `await` on Valkey is a step, so
that `renew` (GET, then SET), `CapacitySlots.release` (GET, then DEL) and `put`
(SET, then ZADD) can be interleaved, while `CallLeaseStore.release` (WATCH,
MULTI) is one step. A transaction commits in one step, after the checks it makes
under its locks; the admission, whose transaction stays open over three Valkey
calls, holds its subject's lock (`SubjectLocked`) from its checks to its commit.
`Undo*` is the compensation in `request_call`'s except clauses. The three paths
that end a call share `Finish` and differ in what they read before it.

*Time.* Deadlines are countdowns; `Tick` ages them by one and expires keys. The
constants keep the order of the code's deadlines (60 s to join, 900 s of call,
930 s to recover, 960 s of lease, 7200 s of slot; `platform/config.py:199`
forces a lease between 930 s and 1800 s).

*Switches.* `Modes` and `Paths` choose which calls are placed and which paths end
them; `Prompt` names the handlers that take no time, `CrashSites` those that
may die between two steps, `AckLost` allows a commit whose acknowledgement is
lost, and `OrderlyClients` restricts cancels to granted calls not yet joined. The
ledger's properties need none of them; the properties of live calls need
`OrderlyClients` and `Prompt`, and section 5 shows what happens without.

### AttemptLedger

The rows alone: `AdmitRep`, `AdmitCandidate`, `End`, `Reassign`. `CallPlane`
instantiates it with `who` and `at` visible from the commit on, and implements
it (`ImplementsLedger`): every step of every handler is one of its transactions
or leaves it alone.

### Recording

*State.* `claim` and `outcome` are the keys `call:egress:*` and
`call:egress-outcome:*`, `indexed` the entry of `call:recordings`; `attempt`,
`rec`, `keyed` and `fault` the row's `status`, `recording_status`,
`recording_object_key is not null` and the `playback_asset` fault; `object` the
recording in the bucket; `egress` and `event` the provider's side. `erasure` is
the subject's request and how far `execute_erasure` has come inside its
transaction: from `"locked"` to its commit it holds the attempt's row.

*Actions.* `Fetch*` is the recording part of `runtime_bundle`, `Hook*` the
`egress_ended` branch of the webhook, `End*` any path that ends the call up to
the completion's own reconcile, `Sweep*` the loop over `due_recordings`,
`StaleSweep` the hourly job, `Drive*` the operator's re-drive (the object is
looked for before the transaction), `Erase*` the erasure, one step per
transaction, object store call or command. Calls share none of this state, so
there is one call.

*Time.* A sweep or the hourly job may settle a recording at any time once it is
scheduled; without the mishap `"late"` it comes when everything else is done,
which is what the 600 s are for. The other mishaps are named at
`MishapsAssumption`.

### WorkPlane

`WorkPlane` extends `AttemptLedger`: the same rows `attempt`, `used`, `closed`
change by the ledger's actions (`Call`, `EndCall` and `Assign` add what the gate,
the locks and the queue have to say), so that the jobs are those the
ledger counts, and the ledger's theorems hold of it (`LedgerKept`).

*State.* `grade` is what becomes of `attempt.status` after `completed`
(`grading_pending`, `graded`; the scorecard is there exactly when graded), `fault`
an open `grading_failure`, `report` the `pdf_status` of `candidate_report`
(`"absent"`: no row), `pdf` the calls that the object in the bucket shows,
`decision`, `listed`, `policy` the columns of candidate, shortlist and position,
`mail` the status of an `email_send`. `job` and `tries` are the rows of
`procrastinate_jobs`, each with the place its worker has reached: `"running"`
with its transaction open, `"put"` when the provider has accepted, `"exhausting"`
when the handler has failed for good and its terminal action is due,
`"dropped"` when the executor returned because the organization is suspended,
`"dead"` when the row is left `doing`. `serving`, `deciding`, `erasure` are the
organization's term, its pending `org_lifecycle_operation`, and the subject's
`erasure_request`.

*Actions.* `Take` is `JobExecutor.__call__` up to the first provider call: the
gate `app_org_service_access`, the subject's advisory lock, the fence, the
handler's early returns. `Commit*` ends a handler's transaction; `Commit` lets
its acknowledgement be lost, after which the worker runs or exhausts what is
done already. `Fail` is any exception, `Retry` the retry strategy, `Exhaust` the
terminal action in a transaction of its own, which takes the gate but not the
fence. `Suspended` rolls back. `Prepare`, `Reject` and `Apply` are the phases
of a lifecycle operation; `Prepare` waits for every open job, because a job holds
the organization's row FOR SHARE. `EndCall` and `ResolveFault` do not ask the gate.

*Mishaps.* Failures of a handler are unbounded but for the retry budget;
`MaxMishaps` bounds, together, deaths of workers, lost acknowledgements, failing
terminal actions, decisions, erasures and patches of the policy.

### Identity

*State.* `account` (status, credential, team), `owns`, `published`, `accepted`
and `links` are rows; `record`, `revoked`, `index`, `epoch` the four kinds of
Valkey key of `platform/security/sessions.py`. `minted` and `held` are the ids
there are and those a browser was given, `req` the requests that run, each with
what it has read (`seen`, `epoch`, the credential and secret it verified).

*Actions.* Each transaction and each round trip is a step: `CaptureEpoch`,
`LoadPrincipal`, `CreateWrite`, `CreateCheck` are a sign-in; `ResolveRead`,
`ResolveSlide`, `ResolveCheck`, `CurrentSession` any request with a cookie;
`ExitGate`, `RotateRead`, `RotateWrite`, `RotateCheck` a gate that is passed;
`BumpEpoch`, `ListSessions`, `DeleteSessions` are `revoke_all`, due after a
deactivation, a reset or a change of team has committed. `Expire` is any deadline.

### Operators

*State.* `claimed` are the keys `ops:totp:accepted:*` with the step at which they
expire, `ticket` and `voided` the sessions and their tombstones, `desk` the
requests. `log` is the list that is walked, `browse` the walk; `browse.owed` is
an observer's: the rows that were there at first and still qualify.

*Time* is counted in the 30-second steps of the one-time codes. A code matches the
step before and after its own; its marker lives for `ReplaySteps` (120 s). A
sign-in stalls between its check of the code and its claim for less than
`StallSteps`: three tries of 5 s for the sealed seed and a statement of 10 s are
less than 30 s (`platform/security/totp.py`, `platform/config.py`).

*Lists* are walked by cursor, a row a page. A row bears the instant its transaction
began, so that it may appear behind, among or before rows that have been served.

### Limits and Exports

`Limits`: `counter` are the throttle's keys with their time to live, `try` the
requests at a door (`DoorNames`), each with the counters it has yet to hit;
`circuit` is one `CircuitBreaker`, `call` the logical calls under it. `age` is the
observer's: what a window's length is measured by.

`Exports`: `export` and `erasure` are the rows of one person, `bundles` the objects
`exports/<id>.zip`, `run` what each worker's open transaction has locked, read and
deleted, `cut` the bundles that a failed transaction touched. A worker's calls of
the object store show at once, its rows when it commits.

### Entry

`Entry` composes the four. They share no state, so a behaviour watches one
`surface`; what each does there is interleaved in full.

### Lifecycle, LifecycleHistory

*State.* `org`, `period`, `ops`, `holds`, `requests`, `run` and `steps` are tables;
`armed` is the erasure ledger; `log` the accepted decisions in the independent
history and `receipts` how many of them have their receipt in both copies; `rows`
the batches of the purge's inventory that still exist; `call` whether the
organization has an established call; `todo` and `orphans` queued jobs and those
whose worker died; `proc` the program counter of each operator request, of the
hourly sweep and of the purge worker.

*Actions.* `Submit` is an operator's command; `Prepare*` the staging transactions
of `lifecycle/service.py`, `restrictions.py`, `subject_requests.py`,
`subject_states.py` and `purge.py` (a pending row of `org_lifecycle_operation` is the
fence); `Quiesce` and `Finalize` end the calls and fix the cutoff; `BeginAppend`,
`PutHead`, `PutReceipt` are `LifecycleHistory.append`, the event being written
before the head under its ETag; `Apply*` the projection under the organization's
row lock. `FindPending`, `RecoverOne`, `FindDue` and `PrepareExpiry` are the sweep;
`Discover`, `Recover`, `TakeJob`, `Inventory`, `Authorize`, `Execute`, `Progress`,
`RecordFailure` the purge, whose decisions are of the run's own episode (`OfRun`); `Die` is a process that ends between two steps.

*Set-ups.* `"fresh"` has no term, `"term"` one that was confirmed, `"episode"` an
organization that operators took to offboarding and then put a hold on: its past
has used up the mishaps.

`LifecycleHistory` keeps the accepted decisions, how many the database shows, and
the state these make: `Accept` admits one decision at a time and only an admissible
one, `Project` shows the next, `Rollback` is a restored backup.

### Restore

`Restore` extends `Lifecycle` by `saved` (the backup), `head` (the stored head),
`objects` and the program counter of `restore_reconcile`. `Backup` copies the tables
at any moment, `Disaster` ends every process and brings them back; then
`RepairInterruptedReceipt`, `ReconstructHead`, the replay of each event
(`EnsureOperation`, `MarkersBeforePurge`, `ApplySimple`, `ReplayPurgeEvent` and
the live system's own `Apply*`), `ReplayMarkers`, `ResumeRun`, `ExecuteRun`,
`ReplayRemainingMarkers` and `ReconcileObjects` are the command's stages; whatever
fails leaves the organization isolated (`"held"`), and the command may die and be
run again (`Rerun`).

### Authoring, Hiring, Training, Team

*State.* `document` and `uploads`, `drill` and `jobs`, `position`, `candidate`,
`listed`, `assigned` and `replay` (`idempotency_record`) are rows. Texts are data: a
draft is named by its number, a scenario by the inputs and facts it was written
from, a rubric by its scenario. `txn` is what each open transaction of a manager
has read, `locks` the rows and advisory keys it holds. `ran` counts how often each
key's request took effect.

*Actions.* A transaction that reads, waits and then writes is two steps, `Begin*`
and `Commit*`, with its locks held between them; one whose reads are all made
under the lock it writes under is one step. `Rollback` undoes one. Workers are the
actions on `uploads` and `jobs`: they may fail, be superseded or die.

*Switch.* `Overlap` lets an archive run while an invite does; without it the two
are taken one after the other, because they interfere (section 5).

`Training` adds reps, their attempts and scorecards, months and teams. The views
`v01` to `v08` and the surfaces of `modules/training/service.py` are operators
over the attempts a reader's row policies let through; a `walk` reads a list by
cursor while it changes.

`Team` composes them. A behaviour starts from one set-up: what a team may have, and
how many of each step it may take (`MCTeam`).

## 3. The runs

| Run | Question | Bounds |
|---|---|---|
| `calls` | one live call a participant, verdicts stand, an admission's checks hold at its commit, the plan is closed and reported once | one rep and one candidate, two calls, two slots, both modes, all paths that end a call |
| `crashes` | exact allowance, a live call keeps what it stands on, every step is one of the ledger's, with crashes and lost acknowledgements | one rep, two calls, one slot, a reassignment |
| `recovery` | every attempt and every established session ends | one rep, one call, both modes, any process but the sweeper dies; fairness |
| `recording_crashes` | does an available recording exist, is an unavailable one surfaced, does every pending one resolve | one egress, all mishaps but a failed erasure, a re-drive, an erasure of a live call; fairness |
| `recording_settles` | is an outcome applied whichever of webhook and completion is first; is unwanted audio deleted | two fetches, all three paths, a failed erasure, no crash |
| `work` | is an effect that is owed ever forgotten; does what was sent stand; does the fence hold | one candidate, one call, two grading and two render jobs, one retry, any two mishaps of all kinds, every policy |
| `work_settles` | does every completed attempt, pending report and queued mail come to an end | a rep and a candidate, one call, no retry, one mishap; fairness |
| `forgotten` | section 5 | the smallest instance that shows it |
| `sessions` | do ended sessions stay ended; one code, one session; do windows and holds end; is a probe alone; is a walk exact; do bundles agree with their rows | two requests, two cookies, one account with one reset and one revocation; one operator, two sign-ins, five steps; three rows of each list; two exports and two workers; two requests a door, three callers |
| `lifecycle` | one decision at a time, projected in order; no call after the end of service; no armed erasure withdrawn; is a restore complete, and a failed one for a named reason | two commands of the kinds that start, cancel, restrict, release and answer, one mishap; or a backup, a disaster and one rerun with one process at a time |
| `lifecycle_settles` | are decisions settled, ended terms taken to offboarding, eligible episodes purged, in time and owing nothing | all three set-ups, one command of any kind, exports, one mishap; fairness |
| `team` | is what was published coherent and current, what was withdrawn gone, what was sent standing, a repeated request done once; do all surfaces tell the same | nine set-ups (`MCTeam`), two overlapping transactions, one death |

*Why the bounds are enough.* Calls interact through their participant and
through slots: two calls of one participant, or of two, show every such
conflict; a third is needed only for a slot that changes hands (section 5). Each
deadline is the smallest number that keeps the code's order, so a countdown can
end before, with and after any other.

One recording needs one egress; a second one shows whether two overlap. Each
switch that a passing recording run leaves out is one that section 5 shows to
break its property. `NothingLeftBehind` and `EndedIsApplied` are stated of calls
that no service cutoff has ended (`CutOff`), for the same reason.

In the work plane the jobs of one subject exclude each other, and those of two
subjects share only the organization's gate: one call of one candidate, with a
second job of each kind for the re-drive and the repeated request, shows every
conflict of jobs over an attempt, a report or a mail. Two mishaps are the fewest
that let one failure meet another (a lost acknowledgement and then a failing
terminal action, a death and then an erasure). The E-5 notice is off in `work`;
with `Notify = TRUE` and `MaxMishaps = 1` the same properties hold.

A session is told from another by its cookie alone: two cookies, two requests and
one revocation are a sign-in, a slide or a rotation against what ends it. Five
steps are one more than a code's marker and its window together need. A door's
conflicts are between two requests; three callers are the fewest for which two
are under way when a third opens the circuit.

Decisions about an organization are serialized by its row and by the head of its
history; two commands, the sweep and the worker meet at every step of the
protocol. `lifecycle` looks at holds and erasures, `lifecycle_settles` at exports.
A disaster needs one process at a time: a backup and the history differ by what
was decided since, and at most by one fence, whoever worked beside it. A head that
is behind and a receipt that is torn are not combined.

A set-up of `team` looks at one part: writing a drill from one document (three
generation requests) or from two, inviting with repeated keys, assessments against
archives, composing while drills are published, practice by reps who move, leave
and cross months, the ranking of five reps, and two lists that change while they
are read. Two transactions overlap where their locks can meet and one runs where
only workers or reps interfere.

*Deadlock* is not checked: clients need not call, and ids, keys and steps run out.

*Fairness.* `recovery`: a handler that has started goes on unless its process
dies (weak fairness of each); the sweeper passes every 15 s
(`entrypoints/sweeper.py`) over every due call; a call ends within the 900 s the
runtime enforces; time passes (strong, because prompt handlers hold it back again
and again). No client has to call, join or cancel, and no callback or webhook has
to arrive: the sweep alone must be enough. Requests and bundle fetches are prompt
here: a request stalled for more than the 60 s between its index entry and its
commit is swept before it has a row.

`recording_crashes` assumes two things only: the hourly job runs
(`work/maintenance.py:44`), and an execution of an erasure that holds the row goes
on to its end. Webhooks, callbacks and the sweeper owe nothing.

`work_settles` assumes that a job which can be taken again and again is taken
(strong fairness of `Take`: workers poll, and waiters for an advisory lock are
served in the order of their arrival), and that a handler and a terminal action
end (providers have timeouts). No decision has to end, nobody has to re-drive.

`lifecycle_settles` assumes that a request or job that has begun goes on unless it
dies, that the purge's tasks come back every quarter of an hour, and that each
hourly pass of the sweep makes both of its scans: strong fairness of `FindDue` and
`FindPending`, because a pass may be busy with the one whenever the other has
something to find. No operator has to send, repeat or release anything.

Each property of a passing run has a mutant: a definition changed the way a
plausible bug would change the code, which the run then rejects.

## 4. What is proved

For any values of the constants that satisfy the named assumptions of the modules;
a theorem that assumes more says so.

| Theorem | Says |
|---|---|
| `CallPlane_proofs!Invariant`, `CallPlaneType`, `AdmissionHolds` | `LedgerInv` is an invariant; its parts: types, and an admission's checks hold at its commit |
| `LedgerImplemented` | `CallPlane` implements `AttemptLedger` |
| `AttemptLedger_proofs!LedgerType`, `GradedOnce`, `EndIsFinal`, `AllowanceSafe`, `StagesReachedInOrder`, `PlanReported` | the ledger's promises |
| `CallPlane_proofs!PlanIsReported`, `GradedOnceByCalls`, `NeverOverchargedByCalls` | the same, of the call plane; the first is `PlanClosedOnce` |
| `LiveCallsStand`, `OneCallIsLive`, `VerdictIsKept`, `AllowanceIsExact` | the properties of live calls, and the exact counter; under `InTimeAssumption` |
| `Recording_proofs!RecordingType`, `RecordingPlays`, `RecordingSurfaced` | types; an available recording has its object, if no cutoff purges it and no erasure fails half-way; an unavailable one has a fault |
| `NothingIsLeft`, `OutcomeIsApplied` | the two properties of `recording_settles`; under `Undisturbed` |
| `WorkPlane_proofs!WorkType`, `LedgerKept` | types and retry budgets; the work plane is a behaviour of the ledger |
| `GradesAreFinal`, `NothingIsForgotten`, `WhatIsSentStands`, `FenceIsKept` | for any number of calls, candidates, jobs, retries and mishaps |
| `Entry_proofs!EndedForGood` | ended sessions stay ended |
| `CodesOpenOne` | one code opens one session, if `StallSteps + 2 < ReplaySteps` |
| `ListsAreExact` | a walk through a list is exact |
| `HoldsEnd` | `WindowsEnd`, for finitely many clients |
| `OneProbe` | a circuit's probe is alone, if no outcome is `"rejected"` |
| `BundlesKept` | bundles agree with their rows |
| `Restore_proofs!LiveInvariant`, `RestoreInvariant` | the inductive invariants of `Lifecycle` and of `Restore` |
| `DataOutliveTheirDeadline` | `PurgeIsDue`, of the live system |
| `TheFenceHolds`, `ServiceEndsWithItsDecision`, `ErasuresStand` | `FenceHolds`, `NoCallOutlivesService`, `ArmedNeverClosed`, also through a disaster and its restore |
| `History_proofs!TheHistoryIsImplemented` | `Restore` implements `LifecycleHistory`, if `"episode"` is no set-up |
| `Team_proofs!TeamTypes`, `Invariant` | types; what a transaction read under its locks still holds when it writes |
| `KeyedOnce`, `PublishedWithLiveFacts`, `WithdrawnStaysGone`, `FrozenBelongsTogether`, `DecisionsStand` | properties of `team` |
| `Committed` | commitments stand, if archives and invites do not overlap |
| `WalksAreExact` | a walk through a team's list is exact, if there are finitely many drills and each has an id of its own |
| `StoriesStand` | dashboard, roster, deep dive, histories, leaderboards and catalog tell one story |
| `PracticeIsPrivate` | practice alone changes no figure that is shown |

### The arguments

*Call plane.* The refinement is not a step-by-step fact: a commit may only be an
admission of the ledger if the checks made some steps earlier still hold.
`AdmissionStands` says so, and is inductive only together with `OneAdmission` (the
subject's lock admits one open admission), `Identified` and `AttemptAfterCommit`
(an open admission has no row yet) and `CancelOfCall`. An end of another call of
the same subject keeps it because it can only lower `used`, or must wait for the
lock. In the ledger, `AllowanceSafe` rests on `Refund` taking from the counter
whenever a charged attempt stops being charged, and `PlanReported` on each end
looking at the plan after its own change.

*Live calls.* `LiveInv` says of every place a handler may be at what keys its call
must still have (`Held`: the lease with its time left, the slot it owns, the session),
and how much time is left of each against every deadline that can end the call. A
release then meets only keys of a call that is over. `InTimeAssumption` is what the
argument needs and no more: clients are orderly and handlers prompt, a cancel does not
die half-way, `RecoverSecs < LeaseSecs` and `JoinSecs + RecoverSecs <= SlotSecs`. In
the code a lease of 960 s (`platform/config.py:199`, from 930 to 1800) meets a recovery
after 930 s, and a slot of 7200 s one of 60 + 930; configured to 930 s exactly a lease
may end in the instant its call is recovered. Each assumption that is dropped has a
counterexample in section 5. `AllowanceExact` follows from the refinement with
`ChargedToPast` and `RefundsItsGrant` in the ledger (a refund goes to the grant that was
charged) and `Backed` and `StaleUnused` in the call plane: no attempt of a replaced
assignment is live.

*Recording.* `RecordingPlays` rests on `RecordingInv`: a handler that is about to
delete an orphan (`DeleteInv`) works on an attempt that has no key and can get none,
because a key is set only by the completion of an open attempt that no erasure has
fenced (`KeyInv`); an outcome is `available` only after an upload (`HeardInv`); and
while a recording is pending or its attempt open, what was uploaded is there
(`ObjectInv`). `NothingIsLeft` and `OutcomeIsApplied` rest on `SettlesInv`: whichever
of webhook, completion and sweep has yet to run knows of the object or of the outcome.
`Undisturbed` excludes deaths, timeouts, late sweeps, an egress that runs although
`never_established` is reported, an erasure of a live call and a re-drive: all but the
last two leave an object or an outcome nobody knows of (section 5).

*Work plane.* `WorkInv` adds to the properties what makes them inductive. For the
fence it is `FenceClear`: no job's transaction is open while an operation is pending
or its subject is fenced. `Prepare` waits for the open jobs, `Take` lets none in until
the operation is over, and from then on sees the fence; `CallsOwned` and
`GradedAfterCompletion` make the subject of a job a fixed one. For `SentStands`,
`PutIsThere`: between putting a PDF and saying so, the erasure that would delete it
waits for the subject's lock. `MailIsThere` keeps a mail from being sent that was
never due. `NothingForgotten` is inductive with these: `JobEnds` says that a job's row
comes to its end in five ways only, and each leaves its effect, a fault, or a fence.

*Sessions.* `SessionsInv` is about evidence. A session record is `Fresh` when the
account is active, the epoch is the present one and the password is the one it was
opened under; what makes a record stale (a deactivation, a reset) makes a revocation
due in the same step, and the revocation moves the epoch before it deletes. A request
carries what it has read (`Seeing`), and a slide or a rotation that writes a deleted
record back is still before its own check, which finds the tombstone or the epoch. The
index has every record, or a request that will put it there.

*Codes.* `CodesInv`: while a code is spent (it opened a session, or a sign-in holds
its claim) its marker lives until no sign-in it matched can claim it any more. A
sign-in that matched at `opened` claims within `StallSteps`, and a code matches only
the steps beside its own; hence the bound, which is tight.

*Lists.* `WalkOK`: what was served is in order, everything owed is either served or
ahead of the cursor, and a row that is written during the walk is not owed. A row's
place is a number, and a page is the least of the rows ahead: `LeastNumber` (a
nonempty set of naturals has a least element) is proved from the well-foundedness of
`<`.

*Circuit.* `CircuitInv`: a call that is under way when the circuit opened began before,
and no call lasts until the probe (`CallTicks < RecoveryTicks`), so that when the
interval has passed nothing else is under way.

*Windows.* `WindowsInv`: a window's age and the time it has left are at most its length,
because a hit leaves the end where the first one put it. A hold may be set again, but
only by a request that was let through before it was set (`Trying`), and by each once;
hence `age + ttl + MaxHold * Cardinality(Trying) <= MaxHold * Cardinality(Clients)`. A
hold's length is a power of two, a recursive function (`Doubled`): that it is a positive
number at every place is shown by a least place without a table up to it.

*Bundles.* `ExportsInv` says, for each place of a worker, what its locks make certain
(`KeysOffered`, `Shaped`, `Apart`, `OnPending`, `Collected`, `Swept`, `Stored`); what a
failed transaction leaves behind is in `cut`, of which the property says nothing.

*Lifecycle and restore.* `IInv` is `Shared`, what the tables, the history and the marker
ledger owe each other (one pending decision, for the sequence shown; the history is the
chain of what was applied, and of that decision; the data of a decision are what it was
admitted with), and `Processing`, what each process knows at each step. A step is one
of few effects on what is shared: `Staging`, `Cutting`, `Rejecting`, `Appending`,
`Receipting`, `Projecting`, `Working`, `Calling` or nothing (`Calm`); each action is
shown to be one, and each effect to keep `Shared` and what every other process knows.
`RInv` adds that a backup shows what was so (`Backed`), and says of the rebuilt
database what survives the disaster (`Recovering`): the invariant of the live system
does not, since the restored tables are older than the history.

The refinement is told in worlds: the n-th is what the first n accepted decisions make of
an organization. While the system lives there are worlds from the first to the last decision
(`Tale`), each decision fits the world before it (`Fitting`: a claim or an authorization
only over no holds, in the episode of the purge), the tables read as the world of their
sequence (`Reads`), and so does the backup. A disaster goes back to a world the history
led through, which is the rollback of the abstract specification (`ToldAlike`: what was
shown was an effect of the same decisions). While it rebuilds, the restore leads the
tables through the same worlds again (`Retold`, `Restoring`), because the events it
verified are the decisions that were accepted. The theorem starts from an organization
without a term or in its first one, which is how `create_org` leaves it; the set-up
`"episode"`, with a past before the first state, is a shortcut for TLC.

*Team.* Every shared row is written under its lock, so that `TeamInv` need only say what
each open transaction read (`Granted`) and which locks it holds; `TxnStep` shows that no
other transaction's step, and no worker's, changes what a lock protects. From there:
`RecordedOnce` (a key's record is kept by the primary key even when it has expired),
`OffersPublished` and `ClosedRevokes` (withdrawals take the same locks as offers), and
`CoherentInv` (a worker's result is applied only to the request it was made for, and
everything that changes a draft calls its requests off).

*Walks.* `WalkInv`: of the rows that have not moved since the walk began, each one behind
the cursor was served once and in its place, and none ahead was served. What a rep's
library is ordered by moves a row only if it changes; in a manager's catalogue a stamp
only grows, which moves a row towards the front (`OnlyForward`), where no later page
looks. A page is the least rows ahead, which exist because the drills are finitely many
(`LeastElement`).

*Figures.* The one invariant is `Practised`: an attempt is of the team its rep is in now,
because a change of teams takes the attempts along. So the attempts a manager reads are
those of the reps on the roster, and two surfaces that add them up in different parts (by
rep, by call type, by drill) add up the same set. That needs the value of a fold, which no
theorem of the library gives: `PartsTotal` says that the total of the sizes of finite sets
that share nothing is the size of their union, by a smallest set on which the fold would
go wrong; `SumOf` puts every sum of scores into that form, and `MeanIsFigure` says that a
mean is then a number, and not the `None` of nothing. Who leads does not lag because the
top fifth ends before the bottom half begins (`FirstFifth`). That practice counts
nowhere is a statement about one step, shown surface by surface (`PracticeOnly` and the
lemmas `...Alike`): each is drawn from `Public`, the attempts that are no account's
practice, and those are what they were. The set-up may hold attempts from before the
first state, of the team's own reps (`PastAssumption`).

### Only model-checked

* Liveness under fairness: `EveryCallEnds`, `PendingResolves`, `WorkSettles`,
  `DecisionsSettle`, `DeadlinesAreMet`.
* `RestoreIsComplete` and `HeldForAReason`: they say of the end of a restore what every
  stage before it has left, and would need an invariant of the command's own progress
  through markers, purge and objects.

`AllowanceExact` is false of the ledger by itself when an assignment is replaced under
a running attempt and an older refund takes from the fresh counter: the counter may
then be too low, never too high, which is what `NeverOvercharged` says.
`NeverOvercharged`, `DispositionIsFinal`, `GradedExactlyOnce`, `GradedForGood`, the
order of stages and `SentDecisionsStand` are proved and are no property of a run.

## 5. Where the code and its documents disagree

One is a run that TLC refutes with one property:

* `forgotten`: a grading job that starts, or is at its provider, while a lifecycle
  operation is pending or the term is over counts as done
  (`platform/queue/runtime.py:118`). The attempt stays `completed`: no grade, no
  fault, no job. So does every other job; a subject request alone, which keeps
  an operation pending for one write to the history, is enough. The comment at
  `calls/completion.py:229` calls it a durability property that a completed call is
  never lost.

The others are no runs of their own: change the named constants of a run, or check the
named property with it, and TLC finds it violated.

### Calls and recordings

* `recovery` with `OrderlyClients = FALSE`, `Prompt <- Everyone`, `LeaseSecs` and
  `SlotSecs` 3, attempts only, `CrashSites <- NoCrash` and the property
  `EveryAttemptEnds`: DELETE /calls/current while POST /calls is between its session and
  its commit. The cancel's transaction finds no row, the session and index entry go, the
  commit follows (`api/calls.py:370`): an `in_progress` attempt nobody will end, and an
  allowance charged for nothing, although "no attempt is stranded in_progress"
  (`src/contracts/platform/api/02-async-internal-contracts.api.md:165`).
* The same with `OrderlyClients = TRUE`, `Prompt <- AllButBundles` and
  `CompletedIsGraded`: a fetch that began before the join deadline establishes the call
  after the sweep has deleted its attempt; the completed call is not graded.
* `calls` with two reps, three calls, one slot of four ticks, attempts only,
  `Allowed = 2`, `Prompt <- AllButCancels`, `Paths <- SweeperAndCancel` and
  `WithinCapacity`: `CapacitySlots.release` is a GET and a DEL; when the sweep and a
  cancel release the same slot, the later DEL frees the slot of a third call.
* `calls` with `OrderlyClients = FALSE`: a cancel that read PENDING goes on after the
  agent's fetch has established the call; it frees the slot of a live call and deletes
  its session (`LiveCallStands`). With `Prompt <- AllButCancels` too, and the rep alone,
  it frees the lease of a live call, and the rep gets a second one (`OneLiveCall`).
* `recording_settles` with one egress, `Paths <- CallbackAndSweeper`,
  `Mishaps <- NoMishap` and `EraseLive = TRUE`: audio that is uploaded after an erasure
  has collected its keys is deleted by nobody (`NothingLeftBehind`; the async contract,
  line 272, has erasure reach the object store).
* `recording_settles` with `Mishaps = {"late"}`: audio uploaded between the erasure's or
  the hourly job's check of the object and its commit is deleted by nobody. With the
  fates of `AnyFate`: `never_established` reported of a call whose egress runs leaves an
  object without a row. With `{"timeout"}`: a start that timed out is released and
  repeated, and one of two egresses is unknown (all `NothingLeftBehind`).
* `recording_settles` with `Mishaps = {"crash"}`: a process that dies before it has
  stored the egress id loses the upload, which is marked unavailable
  (`EndedIsApplied`); a re-drive finds it.
* `recording_settles` with one egress, no mishaps and `AvailablePlays`: a service
  cutoff deletes the object of a completed call whose session is not yet terminal; the
  row stays `available`. A failed erasure (`{"rollback"}`) does the same.

### Work

* `forgotten` with two calls of two stages, no mishap and `PdfMirrorsReport`: a PDF
  rendered before the last grade stays as it is, since `request_render` refuses an
  available one (`src/contracts/platform/specs/22-hiring-manager.spec.md` asks that it
  mirror the report's content).
* `work` with `Notify = TRUE`, `MaxMishaps = 0` and `CompletionRenders`: the render job
  that a candidate's completion enqueues joins `candidate_report`, whose row only a
  manager's request inserts (`modules/hiring/reports.py:125`), and returns. Under
  `after_finish` the report mail that waits for the PDF is then not created.
* Without a property of its own: a dead worker's row stays `doing`; a mail whose commit
  fails is sent twice; a report mail is sent though the policy was patched to
  `withhold`, or the decision reversed, after it was queued; a second render job
  overwrites a PDF that is available; a PDF put by a transaction that then fails stays
  in the bucket; a shortlist's mail passes the fence, because it has no subject.

### Lifecycle

* `lifecycle_settles` with `ExpiredTermsTransition`: `org_due_terms.sql:54` lists
  neither `start` nor `cancel` among the pending operations it discovers; one that was
  left pending holds the fence, and the term that ends meanwhile is not taken to
  offboarding (the async contract, line 193: the expired term "remains discoverable").
* `lifecycle` with `Kinds <- PurgeKinds`, `Subjects <- JustErasure`, `Disasters = {1}`,
  `Reruns = 0` and `ErasuresAreReplayed`: `replay_organization` stages a claim, an
  authorization or a completion before it replays the erasure markers
  (`lifecycle/restore.py:329`), and `execute_erasure` refuses to run under a pending
  operation; the restored organization stays isolated
  (`src/docs/restore-reconciliation.md:12`).
* Without a property of its own: `apply_cancel` asks again whether the term has ended,
  so that an accepted cancellation that crosses the end is never projected; a claim left
  pending is not discovered; the retries of a subject request run out while a decision is
  pending, and `fail_erasure` overtakes the state that was decided.

### Accounts, operators, limits, exports

* `sessions` with `Surfaces = {"sessions"}` and `LimitedStaysLimited`
  (`src/docs/open-items.md:203`): a request that was admitted under a
  limited session rotates it after another device has left the gate: the session that the
  provisioned password opened goes on, unlimited. With
  `RepsHaveManagers`
  (`src/contracts/platform/specs/10-identity-and-access.spec.md:43`): a rep is
  provisioned to a manager who is deactivated between the check and the insert.
* `sessions` with `Surfaces = {"circuit"}`, `Outcomes` with `"rejected"` and
  `ProbeIsOne`: a probe that ends in a non-retryable error reports no outcome
  (`platform/resilience.py:149`), and the circuit stays half open for ever; only
  `HttpCertificateLoader` passes `retryable`, and nothing wires it.
* `sessions` with `Surfaces = {"codes", "operators"}`, `StallSteps = 2` and
  `OneCodeOneSession`: a sign-in that stalls for a minute may claim a code whose marker
  has expired. The shipped timeouts keep it below 30 s.
* `sessions` with `Surfaces = {"exports"}` and `ErasedKeepsNoBundle`: a bundle that was put
  by a transaction that then failed for good has no row, and survives a later erasure
  (the async contract, line 272; `modules/operations/subject_rights.py:3`). Only the
  organization's purge or a restore removes it.
* Without a property of its own: an export of a person who ever asked for an erasure,
  a withdrawn one too, fails (`execute_export` reads no status); nothing sets
  `processing`; `expire_exports` and the operators' `revoke_all` have no callers; an
  export and an erasure of one person take their locks in opposite orders, which
  PostgreSQL breaks and the queue retries; `record_failure` is called by requests that
  were in flight when the hold began; a rotation racing a sign-out leaves its new
  session live; a reset whose process dies between its commit and `revoke_all`
  (`api/auth.py:422`) revokes nothing.

### Teams

* `team` with `ReviewedGoesLive` (FR-KNW-006): a publication carries the version of its
  review, which a replaced draft does not change.
* `team` with `ClosedIsClosed`: `add_candidates` reads the status without a lock.
* `team` with `Overlap = TRUE` and `InvitedHaveStages` (FR-HIR-004): an archive deletes the
  stage of a position while an invite freezes it; neither takes a lock of the other.
* `team` with the set-up `Practising` alone and `OneTruth` (FR-TRP-002): the views join
  the drill with its reader's rights (`src/sql/views/v01_counted_pool.sql:23`), so that a
  rep who changed teams, or practised a drill since archived, and the manager read
  different numbers, although they are "computed by the same formulas and the same attempt
  pool" (`src/contracts/platform/specs/20-training-rep.spec.md:15`).
* Without a property of its own: `close_position` answers 200 for a draft position and
  leaves it open; an expired key's record is never deleted, so that the key hits the
  primary key after a day; a dead worker leaves a generation `running`.

## 6. Plan

1. `AttemptLedger`, `CallPlane`, `Recording`, `WorkPlane` (done, proved).
2. `Identity`, `Operators`, `Limits`, `Exports` in `Entry` (done, proved).
3. `Authoring`, `Hiring`, `Training` in `Team` (done; all proved).
4. `LifecycleHistory`, `Lifecycle`, `Restore` (done; proved but for what a completed or
   held restore leaves).

Left: that a restore which ends has replayed everything (`RestoreIsComplete`,
`HeldForAReason`), as theorems.

## 7. Not modelled

Row policies are static predicates on the scope and appear as what a reader reads
(`Training`). Schemas, serialization, telemetry and settings have no state that
outlives a request; provider adapters are calls that may fail; migrations, generated
contracts, tests and scripts do not run with the system. The bundle and placement of a
call, and a candidate's progression and preflight, are projections of rows that other
modules have.

Left out of modelled parts: the 7200 s life of a session record that its recovery has
missed; what a transaction raises (the sweeper's pass stops at the first call whose
recovery raises); self-authored practice in the call plane (unmetered); the deferral
of envelopes newer than the worker; the mails E-1 and E-2 with their sealed secrets;
delivery events, whose reconciliation has no caller; HR contacts, notes and the CSV
import; what a bundle contains and which columns an erasure blanks; weekly points,
30-day cards, coach feedback and badges; drift checks and validity statistics, which
only read.

Hazards of the code that `PROJECT.json` does not list, because a listed one is of the
same kind or because they are single steps: the ignored result of a lease's renewal
(`api/calls.py:301`), a sweep's pass that ends with the first call that raises
(`calls/sweep.py:59`), a mail sent twice (`notifications/dispatcher.py:246`), a policy
patched after queueing (`:221`), a generation whose worker died
(`work/generate_scenario.py:29`), a re-drive of an erased recording
(`src/sql/functions/phase4_fault_redrive.sql:33`), the slide of an operators' session
(`platform/security/sessions.py:457`), a thread that outlives its timeout
(`platform/resilience.py:149`), separate statements behind one training response, and a
mark-read that marks an item nobody saw.
