# Yggdrasil API: TLA+ models, checks and proofs

This directory holds TLA+ modules that model the state-changing core of the
Yggdrasil API, TLC configurations that check them on small instances, and proofs
that the TLA+ proof system checks for every value of the constants. The code is
the reference: each definition that stands for code is listed in `PROJECT.json`
under "map" with the lines it translates. Paths below are relative to `src/`.

Run, in this directory:

    tlc -workers 2 -config FeatureRequests.cfg MCFeatureLifecycle.tla
    tlapm FeatureLifecycle_proofs.tla

## 1. The system

The API is a Node/Express server over one Postgres database. Several replicas
run at once. An external Orchestrator (not in the repository) claims rows of
`jobs`, runs them in pods and posts their events to the API's internal routes;
GitHub delivers webhooks; browsers use REST routes and a WebSocket. There are no
transactions around a request, with a few exceptions (the scheduler's tick, the
rewriting of an installation's repositories, an extension's rows), so a request
is a sequence of separate SQL statements that interleaves with every other
request, on every replica, and may stop between two of them.

| Part | State | Operations | Interacts through | What is hard | What makes it correct |
| --- | --- | --- | --- | --- | --- |
| Feature lifecycle (`features/repository.ts`, `projects/routes.ts`) | a row: status, ADR, `adr_approved`, `awaiting_user_input`, PR URL | edit, approve, start, retry, redo, restart, resume, cancel, reply | rows of `jobs`, events, webhooks | reads checked in one statement and acted on in a later one; guarded and unguarded UPDATEs mixed | builds only of approved specifications; the row moves along the intended edges |
| Testing gate (`features/testing-gate*.ts`) | none of its own | decide, apply, reconcile tick | runs of the feature since its last build | two triggers, several replicas, crashes, runs that never report | decided once, by the right runs, and always eventually |
| Jobs and events (`jobs/`) | `jobs`, `job_events`, `job_messages` | create, cancel, event intake, deltas | Orchestrator, LISTEN/NOTIFY | late and out-of-order events of superseded runs | one effect per event; deltas bounded per job |
| Webhooks (`github/webhook-routes.ts`) | none | merge, changes requested, push, installations | features, deploy jobs, installations | redelivery, any order | a merge completes the feature and resolves its item; project init deploys once |
| GitHub installations (`github/`) | installation, its repositories, warnings, user access | sync from GitHub by four kinds of handler, suspend | GitHub's API, webhooks | a sync reads GitHub twice and writes three times, several overlap | the tables agree with GitHub once a sync ran undisturbed |
| Sign-in (`github/routes.ts`, `auth/`, `users/`) | accounts, OAuth states, cookie sessions, GitHub tokens | callback, touch, log out, confirm a name, refresh a token | GitHub's token endpoint, the picker of repositories | a refresh invalidates what is stored; accounts are read long before they are written | a token that GitHub accepts is stored; a settled account stays settled |
| Recordings, screenshots (`recordings/`, `screenshots/`) | a row and its bytes, in Postgres or in a bucket | upload, download, sweep | bucket calls | row and object share no transaction; the object's key depends on the content type | live bytes exist, expired bytes go |
| Object storage (`storage/`) | the bucket | put, get, delete, backfill | the artifact tables | partial failure; a backfill runs beside uploads and sweeps | a row never names bytes that are not there |
| Sessions (`sessions/`) | session rows, fork points | upload, resume, fork, sweep | artifacts, grill redo | reports arrive again and late, two replicas sweep, a cap of zero | kept for the run's window, then reclaimed with its fork points |
| Live relay (`live/`) | hub (topics, sockets), LISTEN client, frame queues | subscribe, unsubscribe, publish, reconnect | `job_events` notifications | awaits between authorisation and subscription, reconnects, back-pressure | what a client was told is what it receives; one listener, and always one again |
| Scheduler (`scheduling/`) | `tests.last_run_at` | tick | jobs | replicas, cron and time zones | a due occurrence is dispatched, once |
| Deploys (`deploys/`, `jobs/dispatch.ts`) | deploy jobs, ledger | deploy, rollback, completing the set-up | webhooks, Orchestrator | concurrent requests and webhooks | one operation in flight; the ledger is true; nothing due is lost |
| Migrations (`db/migrate.ts`, `index.ts`) | `schema_migrations`, advisory lock | boot | replicas | lock lifetime, a crash in mid-pass | each file once, every replica serves in the end |
| Organizations (`organizations/`) | members, roles, invites, cluster | invite, accept, change role, remove | model configuration, project creation | guards read before the write | nobody joins but by an invite |
| Model configuration and secrets (`model-config/`, `secrets/`) | providers, models, picks per tier, secrets | edit, pick, resolve for a job | jobs | a triplet written key by key; deletions of what is picked | a job gets what the ladder says, or is refused |
| Action items and designs (`features/action-items-repository.ts`, `designs/`) | items of a feature, design index | create, resolve, start and submit a design | lifecycle, merges, secrets, tests | several statements per event; sessions started again | what an item waits for resolves it; a submitted design is final |
| Extensions (`extensions/`) | a row per extension and per file, objects | upload, replace, switch off, remove, deliver | bucket, backfill, jobs | rows and objects written apart; keys reused by replacements | a job is given a revision as uploaded, or none |
| Usage and allocations (`usage/`, `allocations/`) | consumption per job, caps | report, aggregate, decide | Orchestrator, model configuration | repeated reports; several queries per answer; ends of months | figures add up; the cap is exact |
| Everything else (previews, audit, notifications, tests CRUD, project settings) | rows of their own | CRUD | foreign keys | little: one statement per request | tests reach it |

`PROJECT.json` lists each part under "components" with what is modelled of it, and
under "hazards" the places where this code is hard to test.

## 2. The modules

| Module | Models |
| --- | --- |
| `FeatureStatus` | the abstract promise: the edges that a feature's status and approval may take |
| `FeatureLifecycle` | one feature: its row, its jobs, and every request, event, webhook delivery and gate that touches them; implements `FeatureStatus` |
| `Artifacts` | the constants and variables that the next two have in common |
| `ArtifactRetention` | recordings: rows, bucket, uploads, downloads, sweeps, backfills, faults, redeployment, time |
| `Sessions` | Pi sessions and their fork points, which share the storage layer and add outcomes, windows and an end of collection |
| `LiveSockets` | the hub and the life and frames of the sockets of one replica |
| `LiveRelay` | how a stored event or a delta comes to be published: posting, counting, LISTEN connection, reading back |
| `Cron` | which instant a cron expression last named in a time zone: operators, no state |
| `Scheduler` | the ticks of several replicas over `tests`, with row locks; uses `Cron` |
| `Migrations` | replicas that boot, the advisory lock, the ledger of files |
| `Replicas` | `Scheduler` and `Migrations` composed: a process migrates, then ticks, and dies with both |
| `Deploys` | one project's deploys: requests, webhooks, queue, operations, ledger |
| `Organizations` | members, roles, invites and the cluster of one organization |
| `ModelConfig` | EXTENDS `Organizations`: providers, models, picks, custom triplets, project creation and the resolution of a job's model |
| `SignIn` | OAuth states, accounts, cookie sessions, GitHub tokens |
| `GitHubAccess` | one installation and what is believed of it |
| `ActionItems` | a feature's action items and the index of designs |
| `Extensions` | extensions, their files on both backends, backfill and delivery |
| `Usage` | consumption, reports over it, token caps |
| `MC...` | constants, symmetry and initial states for TLC; `MCParts` places five of the modules side by side |
| `FeatureLifecycle_proofs`, `ArtifactRetention_proofs`, `LiveSockets_proofs`, `LiveRelay_proofs`, `Replicas_proofs`, `Deploys_proofs`, `ModelConfig_proofs` | the theorems about the module each is named after; `ArtifactRetention_proofs` ends with those about `Sessions`, `Replicas_proofs` has those about `Scheduler`, `Migrations` and `Cron` |
| `Parts_proofs` | the theorems about `SignIn`, `GitHubAccess`, `ActionItems`, `Extensions` and `Usage`, as `MCParts` places them |

A convention holds in all of them: a handler in flight is an element of a small
set, and a record (`req[r]`, `process[p]`) holds the statement it issues next and
what it has read. A step is one statement or one call to something outside; a
request refused before it writes anything is no step. An UPDATE with a WHERE on
the status is one atomic step, its guard the condition of the row it finds.

### FeatureLifecycle

A process is one HTTP request in flight (`Requests`) or one replica's reconcile
tick (`Reconcilers`). Each handler is split at the statements whose outcome
another process can see or change:

* `PATCH features/:id` is a read and check (`PatchArrives`) and then `updateAdr`,
  `approveAdr` or `queueBuild` (`EditAdr`, `Approve`, `StartBuild`), the last
  followed by the INSERT of its job (`Dispatch`). A body that asks for several of
  these behaves as that many requests, since each UPDATE carries its own guard.
* `retry-grill`, `retry-build` and the two redo routes read the feature, then its
  jobs, then write. `cancel` writes the feature, then the jobs. `restart` and
  `resume` have their whole guard in the UPDATE.
* Events are the branches of `syncFeatureState`. `submit_build_result` moves the
  feature to testing and then inserts one test run per step (`InsertTest`); a
  failure in between is either a crash (`Abandon`) or an exception that the
  handler catches (`DispatchTestsThrows`).
* The gate is `GateRead` (status), `GateList` (runs and the decision), and one of
  `GateReturn`, `GateError`, `GateAdvance`. A test report and the tick both start it.
* `reviewed` is a history variable: the current ADR text is the one approved.

What is abstracted: the ADR is only "approved as it stands" or not; a job that
completed or failed is `closed`; test reports are passed, failed or unavailable;
settings of project and installation are one record that `Configure` may replace;
checks that refuse a request before any write (access, model configuration) are
left out, so the model accepts more requests than the code; open action items are
module `ActionItems`. Return reasons are not modelled. The project's settings are
read in one step where the code has two reads (tests and capabilities).

The Orchestrator (`Claim`, `Finish`, `Posting`, `Ends`, `Dies`) is external: it
claims pending jobs, posts a run's events in order and at most one terminal
event, may still post for a job whose row was cancelled, and closes a row whether
or not its run ever reported.

### ArtifactRetention and Sessions

`rows[j]` is the row of a job's recording and `bucket` the set of keys that have an
object. A key is a job and a content type, since `recordingKey` takes the extension
from the type (storage/keys.ts:55-61): a recording sent again in another format is
another object, and the row's `object_key` is rewritten. A process carries the
settings it started with, because `config` is read when a process starts. Every
bucket call and every query is a step of its own. `UpdateRows` is one UPDATE: if
migration 047's CHECK refuses a row, the statement throws and changes nothing.
Bytes are present or not (a backfill that writes older bytes over newer ones is
not told apart); size and content-type refusals change nothing. A sweep takes the
objects of its batch in any order. Three history variables say what became of
objects: `taken` are those that a clean-up deleted, or a sweep whose time had come;
`left` those that a replacement, a kill or a failed UPDATE left without a row that
names them; `revived` the jobs whose row was stored while a sweep held it as expired.

`Sessions` has the same layers in less detail and what only sessions have: runs
that end `not_collected` or `unavailable`, which the CHECK of migration 054
forbids to be stamped; windows anchored to the run's start; fork points that are
reported and deleted apart from the row; a cap of zero that ends collection and
makes the sweep take everything.

### LiveSockets and LiveRelay

`conn[c]` is one socket with its handler's closure: whether it is authenticated,
the frames that came early, the chain of frames awaited one after another, the
budget, the errors. `byTopic` and `byConnection` are the hub's two Maps, and
`Publish` prunes as `hub.ts` does when a send throws. Sizes of frames and the
wording of replies are left out; tokens are whole. Authorisation is two reads, of
the membership and of the resource. Sockets that are closing or closed stay in the
model, with what the hub holds of them. Two history variables mark the ways in which
the hub keeps something of a socket that is gone: `pruned` (a publish deleted its
reverse index while it was on other topics) and `late` (the topics it was added to
after its close event).

In `LiveRelay` a post is an event (INSERT, then NOTIFY) or a delta (counted
against `delta_bytes`, then encoded, or dropped when it does not fit). A listener
is a client with the events it still has to emit, so that `error` and `end` of a
client arrive after it was replaced. What is published goes to the hub, which is
`LiveSockets`' `Publish` with any topic at any time.

### Cron, Scheduler, Migrations and Replicas

Instants are slots of a small calendar, zones have one change of offset. `Cron`
translates the fields, the OR of the two day fields and the search backwards by
days; its properties compare it with a definition that looks at every instant. A
tick is a transaction: candidates are selected, locked and skipped when locked,
runs are inserted and `last_run_at` set at the commit. A process that is killed
leaves its session, and with it its row locks or the advisory lock, until the
server notices; the last statement it sent may still be completed (`late`). `Once`
are the files whose SQL fails where it was applied before (`Refused`), like the
`ADD CONSTRAINT` of 015_project_organization.sql and 056_job_event_fork_stage.sql.

### Deploys, Organizations and ModelConfig

In `Deploys`, `main` is the number of commits, jobs run one at a time because of
the partial unique index, and an operation deploys what `main` is when it is
taken. Reports are retried until they are answered. `due` is a history variable:
commits whose push found a ready project with nothing in the way.

`Organizations` and `ModelConfig` share requests and slots (`req`), since the same
people edit both. A resolution (`Resolve` and the `Read...` actions) descends the
ladder of feature, project and organization, custom triplet before pick, one read
at a time while others write; `Ladder` is what the comments say of it.

### SignIn, GitHubAccess, ActionItems, Extensions and Usage

In `SignIn`, GitHub issues pairs of tokens of which a refresh replaces one; the answer
with the new pair may be lost or unreadable, and its UPDATE may fail, while the process
lives on (`LosesPair`), or the process dies (`orphaned` says of whom). A handler of the
onboarding or of the picker has been authenticated (`FindValid`, `FindById`, `Touch`)
some steps before it writes. `GitHubAccess` has GitHub itself as `remote`, deliveries in
any order, and the DELETE and the COMMIT of the repository transaction as steps, with
the row locks that make a second DELETE wait; `fresh` says that a handler's answers are
not older than the last change on GitHub, nor disturbed by one whose answers are.
`ActionItems` keeps of a feature its status and approval. `Extensions` has a row and
files per slug, objects per id and path; the locks of an uncommitted upsert are `Held`,
a delivery is compared with a budget of encoded bytes (`EncodedSize`: escaping makes a
content larger than it was stored), and `torn` says under which ids objects were written
by an upload or a backfill that did not finish or that another crossed. `Usage` takes
each query of a report, and each read of a decision, as a step; `heard` is what was
reported of each job, in that order, `before` what a report could have seen when it
began, `alone` that no job it is about was reported since.

## 3. The runs

| Run | Bounds | Shows |
| --- | --- | --- |
| `feature_requests` | two requests, no tick, one grill and one build (two attempts), every operation | `BuildPhaseApproved`, `AwaitingHasQuestion`, and that every step is one of `FeatureStatus` (`Implements`) |
| `feature_gate` | one request, one tick, up to two builds, or one build with two script probes, one abandoned process, settings that change at any time | `ReviewsWithinBuilds`, `DispatchedRunsDecided`, `UntestableAdvances` |
| `artifact_retention` | one job in two formats, two uploads or downloads, a sweep of one row at a time, a backfill, two faults of any kind, one redeployment (bucket, no bucket, a longer retention) | `LiveHasBytes`, `GoneOnlyWhenExpired`, `ObjectsReferenced` |
| `recordings_reclaimed` | two jobs a day apart in one format, an upload, a sweep of one row at a time, a backfill, one fault, one redeployment | `ExpiredReclaimed` |
| `live_sockets` | one socket, a feature and two tests of two projects, four frames, a buffer of two, a burst of three | `IndexesAgree`, `ToldIsSubscribed`, `UnsubscribeHonoured`, `FramesHandled` |
| `live_relay` | one replica, two posts of three jobs (of a feature and a test, of a design session, of neither), three clients, two faults | `OneListener`, `CeilingKept`, `QuietAfterStop`, `Relistens`, `NotifiedIsPublished` |
| `replicas` | two replicas, one of them a migration ahead, two tests, at most two edits, failures or kills | `MigrationsSafe`, `EachOccurrenceOnce`, `OccurrenceIsLatest`, `AllServe`, `DueIsDispatched` |
| `deploys` | two handlers, two commits, three operations, one repeated delivery | `LedgerIsTrue`, `FirstDeploy`, `DuePushesDeployed` |
| `model_config` | two users, one invite link, two of three requests at once, one provider, model and kind of job; every write of the catalogue, of picks and of secrets | `PicksResolve`, `FollowsLadder`, `MembershipChanges` |
| `sessions` | two grills a day apart, two uploads, two sweeps, three reports, one fault | `WindowKept`, `ReclaimedEventually`, `PointsForgotten` |
| `parts` | two handlers at once in one of five parts, see below | `TokenUsable`, `SettledStays`, `SyncAgrees`, `AwaitedResolves`, `SubmittedIsFinal`, `DeliveredIntact`, `FiguresAgree` |
| `unreviewed_build` | one request, one build | that `QueuedAdrReviewed`, which the code's comments say, does not hold (section 5) |

Why the bounds are enough to meet the interesting cases. Two handlers are what a
race between a check and a write needs, and what is external interleaves with
both.

* Features: `MaxAttempts` bounds grills and builds together, not the test runs or
  reviews they cause, nor the grill of a kick-back: two give a grill that is
  superseded by another or followed by a build, three (in `feature_gate`) give a
  second build after a return or a failed attempt, so that runs of an earlier
  build are in the table. A project with one Test and one with nothing to run,
  each replaced by the other at any time, take the branches of the decision; one
  with script probes gives a batch of two runs, with one grill and one build. The
  action constraint of `feature_gate` keeps settings from adding or removing the
  probes, for size; nothing fair is constrained, since users change settings.
* Recordings: in `artifact_retention` the two uploads send the recording again in
  the same format or the other one, overtake each other, fail and clean up, while a
  sweep and a backfill hold what they read; two faults are a failed INSERT with a
  failed clean-up, or with another failure. All that a process does names one job, but
  for what a batch of the sweep holds together, so one job is enough for safety; its
  redeployment changes the bucket or the retention. `recordings_reclaimed` has two jobs
  and a LIMIT of one, so that a tombstone fills a batch before a newer row. `MaxTime`
  lets every recording expire.
* Sockets: connections share nothing but the sets of topics, and every statement of
  the hub names the connection it is about, so one is enough. Four frames fill the
  early buffer and overflow it, exhaust the budget, and subscribe, unsubscribe and
  subscribe again.
* Relay: replicas share the database only, and each has its own connection. Three
  clients are one more than the faults that lose them.
* Replicas: four slots a day, a week of two days, a month of three, a year of two
  months, a lookback of three days; 13 expressions in three zones (UTC, and one change
  of offset either way within the window) are compared at each instant, from 12 to 14,
  while the two tests run one of two schedules. `MaxTries = 1` lets a replica time out
  on the lock. The file that only `r2`'s image has is in `Once`, so a kill after its SQL
  stops `r2` for good while `r1` serves. A tick takes two candidates, as many as there
  are tests: section 5 says why that matters.
* Deploys: two commits let a push find an operation pending, running, or overtaken
  by the next one; a third operation can roll back to either of two.
* Model configuration: users and slots are interchangeable, the initial membership
  is any an organization can have, and three requests are a write, a write that
  overtakes it and a resolution.
* Sessions: each grill's window ends in the run; three reports are one that is
  repeated late and one of the other grill.

`parts` has five modules side by side. They share no state: the one call between
them, from the picker of `SignIn` to that of `GitHubAccess`, may happen at any time
in the latter. A behaviour is chosen by `part` at the start and leaves the others'
variables `None`; the run is the five runs in one. Its bounds: two people of the
same name on GitHub, one cookie session at a time, three pairs of tokens; two
repositories of which one project builds one, two changes on GitHub; two design
sessions, two specifications, two items, one test; two slugs, two paths and two
contents, two uploads, a cap of two extensions and a payload that holds two, unless
both have two files of which one is escaped, one fault, two ids; an agent's and a
script's job of two projects in one organization, beside an organization with none,
two reports of consumption, of one or two tokens, two days that are a month each, one
project capped and one not. Two changes are what a handler reads between and
after, two uploads what a replacement or a race is, two items what a second batch
needs.

Deadlock is checked in `replicas`, whose ticks go on for ever. Elsewhere it is not:
a feature may be finished, or the bounds used up, and then the system rightly stops.

Fairness. Everywhere it is weak fairness of what a process, once it has begun, does
next, which stays enabled until it is done, and of timers; a fault may take a
process elsewhere only finitely often. Nothing is assumed of users or GitHub.

* `FeatureLifecycle!Fairness`: a request that was accepted goes on and the tick's
  `setInterval` fires; the Orchestrator claims pending jobs and closes the rows of
  jobs it has claimed, also when a pod dies (which `testing-gate-reconcile.ts`
  relies on: "the Orchestrator fails the job in the shared database"). A run may
  stay silent.
* `ArtifactRetention!FairSpec`: a call returns or fails, the sweep's timer fires,
  time passes; uploads, downloads and the start of a backfill are not fair.
  `Sessions!FairSpec`: uploads that arrived go on, and sweeps start again.
* `LiveSockets!Fairness`: frames that are queued are handled and authentication
  ends. `LiveRelay!Fairness`: a client connects or fails, its events are emitted,
  the retry timer fires, requests and reads go on.
* `Replicas!Fairness`: statements return, the interval fires again, the server ends
  the sessions of dead clients, a replica that exits is started again. Strong fairness
  is assumed of the advisory lock only: it is tried until a deadline and after every
  restart, and is free again and again, and a replica is started, and tries, while it
  is free. That a try meets it free in the end is an assumption about time, which the
  code makes too (migrate.ts:109-158); a replica that cannot boot takes the lock for a
  short pass after each of its ever rarer restarts.
* `Deploys!Fairness`: handlers go on, the Orchestrator takes jobs, ends them and
  reports until it is answered. Webhooks need not arrive.

What the liveness properties except. `ExpiredReclaimed` supposes that the bucket stays
configured, which `purgeExpired` needs to reach an object, that the recording is not
sent again, and that fewer rows than a batch has come before it: tombstones of object
rows count, and may starve it (section 5). `AllServe` excepts the replicas whose image
has a file of `Once` that was applied and not recorded; `DueIsDispatched` holds since
`r1`'s image has no such file, so that a replica is left that ticks. The LIMITs of
`listTestingAwaitingDecision`, of the sessions' sweep and of the tick's candidates are
not below what the runs have, so a full batch of theirs is not met. `NotifiedIsPublished` is
conditional on no failure: the relay does not catch up on what it missed, and
clients reload when they reconnect.

Every property of a passing run has a mutant in `PROJECT.json`: a definition
changed the way a slip in the code would change it (for instance `CanRetryBuild`
without the approval, or a catch block that returns instead of going on), which
TLC then finds to violate the property.

## 4. What is proved

The proofs are of `Spec` (or of `Spec` under the stated assumptions) for every set
of requests, replicas, projects, jobs and every bound.

`FeatureLifecycle_proofs`:

* `TypeCorrect`: `Spec => []TypeOK`. `TypeOK` includes `Coherent`: a process at an
  INSERT has a job to insert, so that the head of its list is one.
* `OnlyApprovedBuilds`, `DraftsLoseApproval`, `Refinement`. The argument goes
  statement by statement: `GuardedEdges` and `UnguardedEdges` show that each
  statement of the repository moves the row along an edge of `FeatureStatus`;
  `NextKeeps` lifts this to actions; `EdgesKeepApprovals` shows that the edges
  alone preserve `BuildPhaseApproved` and `DraftUnapproved`, which are therefore
  inductive together with the type invariant. Refinement is the same lemma read
  as "every step is an abstract step or a stutter". The type invariant and
  `DraftUnapproved` need no run of their own: the theorems say more.
* `AwaitedRepliesHaveQuestions`: `AwaitingHasQuestion` is not inductive alone: a
  pending job could be claimed while already marked as having asked. The
  strengthening `PendingSilent` (a pending job has said nothing) is, and `NextJobStep`
  shows that an asking job stays one unless its own terminal event clears the flag.
* `ReviewsStayWithinBuilds`: `ReviewsWithinBuilds` is a counting argument whose
  invariant, `ReviewInv`, has three parts. `ReviewsCounted` adds to the reviews that
  exist and those about to be inserted one more while the feature is in testing,
  and still counts no more than the builds that passed: a build that passes pays for
  the one move into testing, and the gate whose guarded UPDATE takes the feature out
  of testing passes that on to the review it inserts. `ResultsEnd` (a result stands
  because its run has ended) keeps the builds that passed passed, and
  `ReviewsAlone` (a review is never inserted together with something else) makes an
  insertion take one process out of `Reviewers`. The cardinalities of sets of
  positions in the sequence of jobs are those of `FiniteJobs` and `JobsGo`.

`ArtifactRetention_proofs`:

* `TypeCorrect`, including migration 047's CHECK for every row. It rests on
  `UpdateRows`: a refused statement changes nothing.
* `LiveRecordingsHaveBytes` and `DownloadsGoneOnlyWhenExpired`, of `Spec`: whichever
  calls fail, whatever formats are sent and however long each deployment keeps
  recordings. `BytesInv` has two parts. `ObjectsStay`: whoever is to name an object, or
  to get it, has it in the bucket unless it was `taken`. `LiveUntouched`: a sweep holds
  no row that is live, unless the row was stored under that sweep (`revived`); what it
  deletes is therefore expired or `revived`. What the exceptions stand for is real and
  in section 5.
* `UploadsLeaveNoOrphans`: an object that no row names is one somebody is still at work
  on, or `left`. Its step is about what an upload that fails leaves: nothing, also when
  another upload of the same or the other key, a sweep or a backfill comes between.
* `SessionWindowsKept`, of `Sessions` as `MCSessions` instantiates it: a sweep may stamp
  long after it selected, and a report may come between. `SessionsInv` says that what a
  sweep has taken is due, that what is due (the window has ended, or collection is
  off) stays due, and that a collected row's expiry is the end of its run's window
  whichever report wrote it. It assumes that there is a job and that starts and the
  retention are instants (`SessionsAssumption`).

`LiveSockets_proofs`, for any number of sockets, topics, frames and tokens:

* `HubIndexesAgree`, `RepliesAreTrue`, `LastFrameCounts`: none of the three is inductive
  alone. What a client was told and what the hub holds differ while frames are
  still queued, so `SocketGood` speaks of the queue: for each topic the client no
  longer wants, the last queued frame about it unsubscribes (`Cancelled`; the
  lemmas `CancelledAppend` and `CancelledTail` say what arrival and handling do to
  it). `SocketStep`, `HandleStep` and `PublishStep` carry it through a socket's own
  events, the handling of a frame across its two awaited reads, and a publication
  that prunes. `HubIndexesAgree` is about sockets in every state: of one that no publish
  pruned, the two Maps agree, and once it is closed it is on no topic but those of
  `late`. Of one that was pruned, it says that it is not open and that what the
  reverse index has is true. The other two claim nothing of sockets that are closing.

`LiveRelay_proofs`:

* `OneConnection` and `StoppedIsQuiet` rest on `ListenerInv`: either the relay's
  client is the only live one, or has ended and yet to tell, or one retry is
  scheduled in its place; listeners are created in order, so that none is connected
  twice. After `stop` at most one `connect` has yet to return.
* `CeilingHolds` is a counting argument: `CeilingInv` bounds the deltas that were
  counted below the ceiling and not dropped (`Admitted`), also while they wait to
  be encoded, by the counter. `OneMoreDelta` is the lemma on the cardinality.

`Replicas_proofs`:

* `NamesRecordedOnce`, `ServesMigrated`: `PassInv` relates a replica's pending files to
  the ledger as long as it, or its session after it died, holds the lock; a late
  statement of a dead session keeps the lock taken.
* `MigrationsStaySafe` assumes `ImagesExtend`: of two images one has the files of the
  other and only later ones. It is necessary: the loop of migrate.ts:291-294 applies
  whatever its ledger lacks, so an image with a file in the middle brings it in after
  a later one. `OrderInv` says that what may still run comes last.
* `NoOccurrenceTwice`: `FiredInv` says that the runs of a test are in the order of their
  occurrences and none is later than `last_run_at`. What a tick found due is still
  due when it commits, because its rows are locked against other ticks and edits
  (`SchedulerInv`), also of a tick whose process died; and an occurrence is in the past
  of the instant it is asked at (`OccurrenceIsPast`, of every calendar and zone).
* `OccurrencesAreLatest`: `OccurrenceIsLatest` compares the code's walk, back over local
  days and down the slots of each, resolving every wall time it meets to an instant,
  with a search through all instants. Two lemmas carry it, of any calendar, lookback,
  expression and zone: what a wall time resolves to is the first instant that reads
  it (`ResolvedToFirst`), and instants that read a wall time first are in the order of
  those wall times (`FirstReadingsInOrder`). So the first hit of the walk is the
  greatest hit of the search (`GreatestIs`), and `LookbackReaches` shows that the
  walk goes back as far as the search does. It assumes plain zones (`ZonesAssumption`):
  offsets and their change are at most a day, changes are more than two days apart,
  and no change puts the clock back to the day before. The first two are what makes the
  offsets "a day either side" bracket the one in force (scheduling/timezone.ts:177, :192):
  of changes closer together the two samples may both miss the offset between them.
  Without the third the claim is false as well (section 5). TLC finds zones for both.

`Deploys_proofs`:

* `LedgerTells`: `LedgerIsTrue` is inductive together with two facts: a report is only
  ever about a job that has finished, and a rollback's target, looked up long before
  its INSERT, is in the ledger. Jobs that finished do not change (`Moves`) and the
  ledger only grows (`LedgerGrows`).

`ModelConfig_proofs`:

* `PicksAreCatalogued`: `CatalogInv` (a model has its provider, a pick its model) is
  what the foreign keys promise; the proof goes through each write, with the reads
  that precede it by then stale.
* `LadderFollowed`: `Looking` gives a resolution, for as long as nobody writes, the
  knowledge its control flow has gathered: the tiers it has passed are silent, and
  the source it has found is the ladder's and leads to an answer.
* `MembershipIsByInvite`: an action property of every step, from the types of what
  requests were asked (`Asked`).

`Parts_proofs`, for any number of accounts, cookie sessions, handlers, repositories,
items, designs, slugs, files, jobs, projects and days:

* `TokensStayUsable`: GitHub replaces the pair of tokens on every refresh, so the claim
  is about who may refresh what. `SignInInv` says that a pair just issued is held by one
  handler until that handler stores it (`NewPairKept`), and that any pair is held by the
  row and the handlers of one person only (`HoldersDiffer`): a refresh takes the usable
  token from nobody but the person for whom another is about to be stored, or for whom
  it is lost, and that is then `orphaned`. `HandlerTokens` carries this through the
  steps that move tokens.
* `SettledIsFinal`: the same invariant says that the session a handler was
  authenticated by has been somebody's since (`Found`), so a late touch or logout
  revives none, and that a handler that confirms a name holds a name.
* `AwaitedAreResolved`, `SubmittedStaysFinal`: `ItemsInv` says who still has to do what.
  The item of a merge or of a submitted design is resolved, or a handler has yet to
  resolve it; a submitted design is in the index with its session, or its handler
  is at the write that puts it there (`Indexed`); and a handler works for a session
  only while that session runs, or has submitted (`Works`).
* `SyncsAgree`: a sync reads GitHub twice and writes three times, while others do the
  same. `AccessInv` gives a handler whose answers are `fresh` what its control flow
  implies (`Knows`): from the upsert on the installation is active or suspended as GitHub
  said, at the DELETE its list is what GitHub grants, after the COMMIT the rows are that
  list, before the last write the warnings that remain are due. Handlers that are fresh
  have been told the same, so what one of them writes keeps what the others know
  (`Quietly`); a write from older answers, and a change on GitHub, end it (`Loudly`).
  `AgreeingStep` is about the last write, and about the warnings a removal adds.
* `DeliveriesIntact`: three claims. What an answered delivery gives was compared with
  the digest of the row it listed, so a digest is always one of an uploaded revision;
  a comparison never reads bytes that are not there; and what was uploaded undisturbed
  resolves to every file of its revision and no other (`RevisionWhole`), so that the
  digest check does not refuse it. `ExtensionsInv` says that an object, once written,
  stays, so a file row may name it as soon as it was written under the row's id; that
  each handler has written what it no longer has to do (`WrittenBy`), the backfill
  included, whose `flip` comes after its own put. `WholeInv` adds that what it has written
  is still its own content as long as it is `alone` under its id, and that no two slugs
  share an id.
* `EverybodyIsToldTheSame`: `FiguresAgree` compares every figure with `heard`, the
  reports as they came. `UsageInv` says that a job's row is the day of the first report
  and the tokens of the last (`RowHeard`), and of a handler that no report has disturbed
  that each figure it holds is what it would read now; and of any handler that no
  query misses a session of `before` or has one not heard of yet (`SessionsStay`). What
  remains is about data: groups by any key share no row and cover all rows, so the sums
  over the groups are the sum over the rows (`GroupsAddUp`, `FiguresAddUp`); the latest
  sessions exist and are as many as asked for (`LatestAreLatest`); and the rows of a
  month's report are those the decision adds up (`CapsAgree`). The sums are folds. Since
  no induction rule can be cited, what a fold computes is shown by taking a smallest set
  for which it would compute something else (`SmallestSet`): `SumsExist`, `SumElement`,
  `SumUnion`, `SumOfGroups`.
* They assume that `None` is not a name, a design session, a delivery, a project or a
  kind of storage, that batches are sequences of the types of items, and that jobs
  are finitely many and tokens and caps numbers (`NamesAssumption`, `GitHubAssumption`,
  `ItemsAssumption`, `ExtensionsAssumption`, `UsageAssumption`).

Each of these modules also proves the type invariant of the module it is about, by
itself or as a part of the inductive invariant.

Every invariant and action property that a passing run checks is so proved, the
refinement included, under the assumptions named above. Only model-checked: all
liveness (`DispatchedRunsDecided`, `UntestableAdvances`, `ExpiredReclaimed`,
`FramesHandled`, `Relistens`, `NotifiedIsPublished`, `AllServe`, `DueIsDispatched`,
`FirstDeploy`, `DuePushesDeployed`, `ReclaimedEventually`, `PointsForgotten`), since the
prover has no ENABLED or fairness. The proof of `MigrationsSafe` has a hypothesis,
`ImagesExtend`, that the run's constants satisfy.

## 5. What the code does that its comments or a reader would not expect

One run gives a counterexample to a statement of the code:

* `unreviewed_build` (`QueuedAdrReviewed`): `updateAdr` keeps `adr_approved`;
  approve, edit, start queues a text nobody approved.

The rest were seen while modelling. Where a formula is named, it is stated in the
module under "what comments of the code say and the code does not do" or among its
properties, and TLC violates it; no run is kept for it.

Features.
* `RunningBuildStarted`: `retry-grill` refuses only a *running* grill; a second
  grill's `run_started` moves a queued feature to `running`.
* `ReviewedWhenAllPassed`: a process that dies while inserting the test runs leaves
  a partial batch, on which the gate advances.
* `GateMovesOnlyTesting`: the gate's `setReturned` and `updateStatus('failed')` are
  not guarded by `status = 'testing'` and overwrite a cancellation.
* `TestingDecided`: a process that dies between `setTesting` and the first INSERT
  leaves a feature in `testing` for good; the tick answers `not_run`.
* A late `run_cancelled` writes `cancelled` over `merged`, a delayed review webhook
  `returned` over `merged`; `FeatureStatus` states these edges (`Settle`).
  Two redo requests at once dispatch two grills.

Recordings and sessions.
* The clean-up after a failed INSERT of a repeated upload deletes the object that the
  stored row names: a live row without bytes, whose download answers 410. The comments
  at recordings/repository.ts:68-72 and :129-131 say that this order of writes can only
  leave an unreferenced object and never a dangling row. The same is in `sessions/`.
  `LiveHasBytes` excepts it by `taken`; without the exception TLC shows it in the run.
* A recording sent again in another format leaves the object of the first without a row
  that names it, with no failure at all (storage/keys.ts:55-61; ON CONFLICT rewrites
  `object_key`). No sweep will find it. So does a recording that is sent again
  where no bucket is configured any more.
* A recording stored again by a deployment that keeps recordings longer, under a sweep
  that read the row as expired, is tombstoned or loses its object at the end of that
  sweep: its UPDATEs name jobs and do not look at `expires_at` again.
* Tombstones keep their `object_key` and stay candidates (recordings/repository.ts:242-245).
  Once there are `LIMIT` (50) of them they fill every batch and nothing newer is reclaimed,
  where :230-232 says that a second pass finds nothing and a backlog drains, and
  sweep.ts:10-12 that a sweep only touches rows that still hold bytes. That "nothing would
  ever try again" (sessions/repository.ts:243) is not so for the same reason.
* A report without a session that replaces a collected one on a bucket leaves the
  object unnamed. On Postgres, fork points reported after the purge, or left by a
  process killed before it deleted them, stay for ever, although
  sessions/repository.ts:317-322 says they go with the session.

Live.
* `ClosedNotSubscribed`: a socket that closes while its subscribe awaits
  authorisation is added to the hub afterwards and stays until a publication on that
  topic finds it dead (hub.ts:60-64, socket.ts:431).
* A publish that finds a socket dead deletes its whole reverse index (hub.ts:97-100), so
  that the removal on close finds none of its other topics; it stays on each until a
  publication there.
* `AcceptedDeltaIsSent`: a delta of a design session is checked against the envelope
  of another scope than the one it is encoded for and may be dropped after the route
  accepted it, where types.ts:372-374 says the two are one statement.

Migrations, scheduler and deploys.
* A process that dies between a file's SQL and its ledger row (migrate.ts:293-295) makes
  every boot of an image with that file fail from then on, if the file cannot be applied
  twice: 015_project_organization.sql:41-42 and 056_job_event_fork_stage.sql:54-55 add a
  constraint without dropping it first, as 048_test_report_skip_reason.sql:56-59
  does in order to be "re-runnable".
* With more never-due candidates than the limit of a tick, due tests starve, where
  scheduler.ts:31-36 says they only wait. `setModelConfigWarning` has no caller.
* In a zone that puts its clock back across a midnight that has already struck (as
  Newfoundland did at 00:01 until 2011; a change at 24:00 is not one), the walk starts
  at the local day of the instant it is asked at, which is the day before, and so
  misses what was due in the first minutes of the new day until that day comes again,
  when it is dispatched late. `PlainZone` excludes such zones.
* A push during a running deploy or a rollback is dropped although answered 202;
  the commit waits for the next push.
* A report that is retried after a later operation's makes `currentRevision` name the
  older revision (deploys/repository.ts:143-148).
* A process killed between `markReady` and the dispatch leaves a ready project
  without a first deploy; `Deploys` therefore has no such crash.

Organizations and models.
* `KeepsAdmin`: two overlapping demotions or removals leave no admin, where the
  refusals at organizations/routes.ts:238 and :286 say there must be one.
* PUT and DELETE of a cluster, interleaved, leave the status ready without a cluster.
* Deleting a provider whose models nobody picked deletes the models, although the
  409 of the same route asks to remove those first.
* A triplet is put by three upserts: a failure or another writer leaves a partial or
  mixed one, where secrets/model-config.ts:99-101 says "The API enforces
  all-or-nothing on write". A resolution reads the provider's key and its base URL
  in two reads.

GitHub and sign-in.
* An install callback and the webhook of the same installation that sync at once
  collide: the second INSERT of a repository violates the key, and the callback
  reports `github_install_failed` before access is written, or the webhook answers 500.
* The handler of a removed repository whose sync collides throws before it warns.
  Overlapping syncs that fetched different lists leave a mixture. A sync under way
  overwrites a suspension and clears its warnings. A late removal, delivered after
  the repository was granted again, leaves the project warned.
* Access that was confirmed once is never revoked: nothing deletes from
  `user_installation_access`.
* A process that dies between `createGithubUser` and the creation of the personal
  organization leaves a user without one for good, since the next sign-in finds the
  user and skips both (github/routes.ts:95-99 says every user gets one). While the
  first callback is between the two, another may confirm the account.
* A refresh whose answer is lost or unreadable (github/github-api.ts:271-304), whose
  UPDATE fails, or whose process dies before it, loses the token: GitHub has replaced the
  stored pair. The catch at reconcile-user-installations.ts:65-72 answers and keeps
  nothing, and the user must sign in again (`orphaned`).

Action items and designs.
* `BuildWaitsForItems`: `startBuild` counts the open items and queues in a later
  statement (projects/routes.ts:1444); a batch that a second grill submits in
  between, or is still inserting, does not stop the build.
* `SnapshotOfSession`: an item restarted for another session keeps, or is given, the
  snapshot of the first.
* `OneTestPerRequest`: two requests for one test item that both read it open make two
  tests.
* A process that dies between the merge's UPDATE and `resolveSubtaskItem` leaves the
  item open: a redelivery finds the feature merged and returns.

Extensions.
* `UncommittedUnseen`: a replacement overwrites the objects that the committed rows name
  before it commits, where extensions/repository.ts:94-100 and :227-234 say no row names
  them yet and :81-84 that readers see the old revision or the new. If it fails, every
  delivery of the organization is refused (500) until the extension is uploaded again or
  switched off.
* Two uploads of one slug that overlap leave the rows of one and the objects of the
  other; a backfill's put of an older revision does the same. Deliveries are refused
  as above.
* The arithmetic of extensions/bundle.ts:46-57, by which what fits when stored fits when
  delivered, counts stored bytes; what is compared with the limit is JSON, in
  which a newline or a quote takes two. A delivery over it is refused (`Fits`).
* `CapHolds`: two uploads of new slugs that read the same list exceed the cap
  (extensions/routes.ts:194-201).
* An upload begun before the kill switch was thrown activates the extension again.
  Removing an extension leaves its objects.

Usage.
* `CapKept`: a decision is of the past when the job starts, and two jobs are told the
  same. At the turn of a month the consumption of the old one may be labelled with
  the period of the new (allocations/internal-routes.ts:65, :71).
* A job that runs over the end of a month counts for the month of its first report.

## 6. Not modelled, and the plan

Out of scope for good: formatting, transport, encryption, GitHub's API beyond what
it answers, the bodies of the Orchestrator's runs, audit entries and notifications
(append-only and written after the state change), previews (one row, one
statement), and the CRUD of projects and tests. Resource quotas are rows one side
writes and the other reads. Screenshots are stored, swept and backfilled like
recordings, one row per picture; `ArtifactRetention` stands for them. Transcript
seeds of redone grills, the static checks of an extension's files, and sizes of
frames are data that no property here tells apart.

Left out of parts that are modelled: an UPDATE of an action item that itself fails (its
callers catch that and go on), secrets emptied by an upsert, the LIMIT of the
reconcile tick's list of features, and `said`, the history variable behind
`AwaitingHasQuestion`, when a run ends without a terminal event: there it says only that
the run asked and posted none.

Next, in this order:

1. The composition of `ActionItems` with `FeatureLifecycle` through `spec_ready`, and
   that of `LiveRelay` with `LiveSockets` through the hub.
2. "Run now" of a test (projects/routes.ts:2865-2925) checks for an active run and
   then inserts one (jobs/repository.ts:267-289): two clicks may both find none.
