# Formal model of Aarohan CareerOS

TLA+ modules, TLC runs and TLAPS proofs for the API of Aarohan CareerOS
(`apps/api/app`, FastAPI over PostgreSQL). The program finds jobs, scores them,
writes an application packet for each, and lets its owner approve and submit it.
Nothing is sent automatically: what the program owes its owner is a faithful record,
one that never loses or rewrites a submitted document, never lets a duplicate
application through unseen, never forgets a mail or a posting, and never evaluates
jobs under a policy nobody activated.

Endpoints are plain `def` functions, so FastAPI runs them in a thread pool. Every
request has its own SQLAlchemy session (`database.py`), PostgreSQL runs at READ
COMMITTED, files are written beside the transaction, and a few module variables are
shared by all threads. The models are about what follows from that: stale snapshots,
row locks, commits in the middle of a request, deaths between two commits.

## 1. Inventory

| Component | Source (`apps/api/app`) | State | Operations | Hard behaviour | What makes it correct |
|---|---|---|---|---|---|
| Document versions, packet generation | `services/documents.py`, `document_versions.py`, `routers/workflows.py`, `applications.py` | `jobs.state`, `applications`, `application_document_versions`, files, Drive copies | generate, batch generate, mark submitted | stale counter behind `FOR UPDATE`, file before row, leftovers of failed batch jobs, lock waits | one number, one document; submitted is frozen; every request ends |
| Application workflow, ledger, timeline | `services/approval.py`, `workflow_timeline.py`, `routers/companies.py` | `applications.state`, `submitted_at`, `application_ledger`, timeline | nine approval actions, ledger record, override | three to five commits per request, no unique key on the ledger | no invented submission, ledger follows the application |
| Duplicate risk | `services/duplicate_risk.py` | none (reads ledger and overrides) | evaluate | override hides every match | a duplicate stays blocked until overridden |
| Vendor representation | `services/representation.py` | representations, overrides | evaluate, record, override | verdict changes between check and commit | a conflict blocks packet and submission |
| Assisted apply | `services/assisted_apply.py`, `ats_detection.py` | timeline | prepare, record open | gate evaluated again at the open | never for a blocked job |
| Discovery policy | `services/discovery_policy.py`, `discovery_policy_service.py`, `routers/discovery.py` | version table, module variable with the compiled override, preview lock | draft, activate, restore defaults, preview, startup | commit and publication are two steps; previews borrow the live variable | one active version, the override in use is its own |
| Gmail intake, replay, reviews | `services/gmail_lifecycle.py`, `gmail_replay.py`, `gmail_alert_parsers.py`, `routers/gmail_reviews.py` | processed messages, reviews, signals | fetch, claim, process, fail, replay, backfill, approve, correct, reject | claim by an uncommitted insert, several commits per message, replay of half done work, windows that reach into neighbours | no mail is forgotten or processed twice; entries keep their facts |
| Ingestion, eligibility, scoring, list | `services/ingestion.py`, `job_eligibility.py`, `scoring.py`, `title_normalization.py`, `trust_matching.py`, `opportunity_intake.py`, `routers/jobs.py`, `scripts/audit_fresh_jobs.py` | `jobs`, `companies` | ingest, confirm, import a URL, rescore, list, audit, reconcile | look-up then insert, greedy matching, thresholds, an audit with less data than ingestion had | one eligible row per position and URL; what is listed is acceptable now |
| Connectors, scheduled discovery | `services/connector_runner.py`, `fresh_jobs_discovery.py`, `discovery_orchestration.py`, `discovery_source_inventory.py`, `integrations/job_providers.py` | connector runs, inventory | run, record, probe | one session for many boards, failures of one of them | a failed download never harms another board; the inventory tells what will run |
| AI budget | `services/ai_budget.py`, `tts.py` | usage rows | enforce, record | check, then act, then record | spend within the cap, up to requests in flight |
| Sessions, sign-in | `services/sessions.py`, `local_auth.py`, `routers/auth.py`, `dependencies.py` | sessions, users | sign in, look up, renew, log out, clean up, restart | revocation racing a look-up and its later write | only live sessions enter |
| Google tokens, Drive, health | `services/google_api.py`, `google_health.py`, `drive_settings.py`, `routers/integrations.py` | tokens, Drive settings, folders on Drive | consent, save, renew, disconnect, build folders, report health | three commits per callback, folders made before they are stored, any answer but 200 read as "not there" | healthy means usable; one folder of each name |
| Resume building, quality | `services/resume_builder.py`, `document_quality.py`, `factual_core.py`, `career_vault.py` | evidence, vault | render, validate | none of its own | facts come from the vault |
| Interviews, consulting, Ask, speech | `services/interview.py`, `consulting.py`, `ask_aarohan.py`, `tts.py` | own tables | query, insert | none of its own | - |
| Database identity, recovery, cutover | `services/*identity*.py`, `recovery_row_classification.py`, `legacy_data_inventory.py`, `scripts/phase3_*.py`, `phase4_*.py`, `provision_database_roles.py` | databases, markers, roles, grants | classify, select, rename, promote, undo, provision, migrate | steps that commit one by one and may die, or be overtaken by a migration, between two | no database passes for another; imported rows have their parents |
| Validation, operations, audit | `services/validation_runner.py`, `audit.py`, `routers/ops.py` | audit rows | report, append | none of its own | - |
| Web front end, n8n, scripts | `apps/web`, `workflows`, `scripts` | none beyond the API | - | - | - |

**How they interact.** Generation and submission call duplicate risk and representation
before they write; both write the ledger after they have committed, so risk for one job
depends on what requests for other jobs have already recorded. Mark-submitted names the
version that generation counted. Gmail intake moves `jobs.state`, which generation and
submission also write. Eligibility and scoring read the policy override in process memory,
which activation, preview and startup write. Gmail intake, connector campaigns, reviews and
confirmed opportunities all end in one ingestion; the list and its audits work on the rows it
wrote. The budget is asked before and told after generation.

## 2. The modules

| Module | What it is |
|---|---|
| `DocumentArchive` | what the version store promises, without requests, locks or files |
| `DocumentVersions` | the version store; implements `DocumentArchive` |
| `DocumentVersionsProofs` | theorems about its tables, and about the files it writes beside the transaction |
| `DuplicateRisk` | `evaluate_duplicate_risk` as operators |
| `ApplicationWorkflow`, `ApplicationWorkflowProofs` | requests over application, ledger and timeline, with `DuplicateRisk`; their theorems |
| `DiscoveryPolicy`, `DiscoveryPolicyProofs` | policy versions, the override in memory, previews; their theorems |
| `IntakeLedger` | what intake promises of postings, messages and reviews, without sessions, rows or boards |
| `Intake`, `IntakeProofs` | requests that fill the jobs table, over `JobIntake` and `GmailReplay`; implements `IntakeLedger`; their theorems |
| `JobIntake` | `ingest_job_with_decision` as operators on the jobs table |
| `GmailReplay` | the rows of processed messages and what they say |
| `FreshJobs`, `FreshJobsProofs` | the life of one row on the Fresh Jobs list, with `Eligibility` and `Opportunity`; theorems about it and about `Scoring` |
| `Sessions`, `AIBudget`, `GoogleLinks`, `ServicesProofs` | what all requests share; its theorems |
| `Cutover`, `Provisioning`, `DatabasesProofs` | scripts on the databases; theorems about them, `DatabaseIdentity` and `RecoveryRows` |
| `Inputs` | the frame of the modules of pure decisions |
| `TitleMatching`, `Scoring`, `Eligibility`, `Opportunity`, `PolicyOverrides`, `JobPages`, `AlertParsing`, `JobSources`, `DatabaseIdentity`, `RecoveryRows` | pure decisions as operators |
| `DecisionsProofs` | theorems about `JobSources`, `PolicyOverrides`, `TitleMatching`, `JobPages` and `AlertParsing` |
| `MCDocumentVersions`, `MCDiscoveryPolicy`, `MCApplicationWorkflow`, `MCIntake`, `MCPlatform` | small instances for TLC |

### DocumentVersions

Committed rows are `jobState`, `appState`, `latest` (the counter), `submitted`, `versions`
and `frozen`. A request has a label `pc`, what its session has loaded (`snap`, `fresh`),
and what it has flushed and not committed (`wJob`, `wApp`, `wLatest`, `wRows`); a flushed
write to a row is that row's lock. A document is identified by the request that rendered
it, so "overwritten" means that the content under a path is another request's.

| Action | Code |
|---|---|
| `Begin`, `Load` | the endpoint reads the job (`applications.py`, `workflows.py` for a batch) |
| `CheckRisk` | `evaluate_duplicate_risk`, which commits what is pending when the job has no company yet, then `job.application` |
| `Refuse`, `CheckFails` | every `ValueError` before and after the first flush |
| `FlushJob` | `PACKET_GENERATING` and the INSERT of a first application; `applications.job_id` is unique |
| `Allocate` | `allocate_version_number`: waits for the row, then counts from the attribute loaded earlier |
| `WriteFile`, `Register` | `build_ats_docx`, then `_register_document_version` with its immutability check and `uq_app_doc_version` |
| `Commit`, `UploadToDrive`, `Finish` | the commit, the Drive copy read by path, the next job of a batch |
| `PickApplication` ... `CommitSubmitted` | `apply_approval_action("mark_submitted")` and `mark_version_submitted` |
| `Abort`, `Fail` | the session is closed; or, in a batch, the error is noted and the session goes on |
| `DeadlockVictim`, `Crash`, `JobMovesOn` | PostgreSQL, the process, Gmail as another writer of `jobs.state` |

`UPDATE` statements leave out columns whose value equals the loaded one; where that decides
what is written or locked (`FlushJob`, `LockSubmitted`, `CommitSubmitted`), it is modelled.
A second job named twice in one batch, and the choice of resume profile beyond "the part of
a path that varies", are left out.

### ApplicationWorkflow and DuplicateRisk

A request checks, commits the state, re-reads the application, reads its ledger row, inserts
or updates it and records the timeline, each in a step of its own because each is a
transaction of its own. Risk and representation are evaluated in one step, and an override
is evaluated and recorded in one step. Normalisation of URLs, requisitions and titles is
reduced to whether two jobs have the same key. Representation is reduced to its verdict,
which may change at any time. The action `opened_application`, which only records an event,
company aliases and audit rows are left out.

### DiscoveryPolicy

The table, the module variable (`memory`), the startup flag (`degraded`) and the preview lock.
An activation loads its target, reads the active rows, commits and publishes, in four steps. A
preview binds the override it will put back, waits for the lock, swaps, evaluates and puts
back; an error jumps to the `finally` clause from any step that holds the lock. `Restart` is a
death at any point followed by `refresh_active_override`, which may fail. Overrides are values
here; what their validation, compilation and merge make of them is `PolicyOverrides`. One `if` that looks redundant matters: a
target that is active already goes active, archived, active within one session and is not
written at all (`StatusAfter`).

### Intake, JobIntake, GmailReplay

A request is a Gmail synchronisation (`sync`, or `gmail` as a stage of its own), a connector
campaign (`discover`), both in sequence (`all`), an owner's review (`approve`, `correct`,
`reject`) or a confirmed opportunity (`confirm`). It works through units, messages or boards, in
one session, and the model has one step per commit or look-up:

| Action | Code |
|---|---|
| `Arrive`, `ReviewArrives` | the fetch with `should_skip_gmail_fetch`; the list of boards; the review's row |
| `Claim`, `Quarantine`, `RecordFailure` | `process_gmail_message` up to its classification; `_quarantine_message` |
| `FetchBoard`, `RecordRun` | `run_connector`; its `connector_runs` row |
| `Look`, `InsertJob`, `CommitJob` | `ingest_job_with_decision`: look-ups by source key, URL and position, the INSERT, the commit |
| `LookAtThread`, `InsertSignal`, `RecordOutcome` | the signal, the job it is about, the outcome of the message |
| `Decide` | the end of the owner's request |
| `Crash`, `Backfill` | death, perhaps followed by a new parser version; the maintenance command |

An INSERT of a key that another session has inserted and not committed waits (`ClaimFree`). An
INSERT may also fail on its data: nothing shortens a title, a company, a location or a URL before it
meets its column (`models.py:153-162`), nor the sender and subject of a mail (`models.py:326-330`),
and PostgreSQL stores no NUL character. `Unstorable` and `UnstorableMail` are the postings and the
messages with such text. A failed INSERT breaks the session (`broken`) until a rollback, which the
campaign's `except` clause does not make: the later boards of the campaign then fail too, after a
refused posting with any number of threads (`intake_boards`, section 5), after a race for a key when
requests overlap. Two messages with one subject in one thread share a signal. `Backfill`, a command
that the owner's scripts call, is taken to run while no request does; nothing in
`gmail_replay.py:266-283` sees to that.

`Intake` implements `IntakeLedger`: `decided` is the decision of each stored job, `settled` are the
messages with a signal, `dropped` those that no fetch takes again, `accepted` those with a review
that has a job. `CommitJob` is a `Store`; `InsertSignal` is a `Settle` that may drop the message
at once (its row may be another's, complete already); `RecordOutcome` is a `Drop` or nothing;
`Decide` is an `Accept` or nothing; everything else, deaths and backfills included, is invisible.

### MCPlatform and its parts

These parts share no state with the modules above nor with each other. One specification gives
each behaviour one part (`part`), so that one run checks them all; the pure decisions are the
part that takes one input and stops. The theorems are about each part by itself: `FreshSpec`,
`SessionsSpec`, `BudgetSpec`, `LinksSpec`, `CutoverSpec`, `ProvisioningSpec`, `ScoreSpec`,
`RecoverySpec`, `IdentitySpec`, `PolicySpec`, `TitleSpec`, `PagesSpec`, `MailSpec` and `SourceSpec`
are made of the Init and Next that `MCPlatform` gives the parts (`LinksSpec` has account and Drive
together). The inputs of a decision are constants of its module: a theorem is about any set of them.

- `FreshJobs`: `Ingest`, `ConfirmNew`, `ImportUrl` make the row, `Confirm`, `SetManualStatus`,
  `Progress`, `Rescore`, `ScoreAll`, `Audit`, `Reconcile` change it, `Day` ages it. A posting is a
  payload of the gate with three times and a set of markers; what the providers' dates become is
  `JobSources!TimesOf`, what the owner's form becomes is `Opportunity`.
- `Sessions`: the look-up, the expiry or touch, and what the request is for are separate steps,
  because they are separate commits; so are clean-up and issue of a sign-in. `Restart` is
  `bootstrap_admin_from_env` after a death.
- `AIBudget`: `EnforceBudget`, `RecordUsage`, `Fail` per worker, `Synthesize` (speech), `NewMonth`.
- `GoogleLinks`: a callback saves services one by one (`SaveToken`), a request builds folders
  one call at a time (`CreateRoot` ... `RecordSubfolders`), Google and the owner act in between
  (`Lapse`, `Revoke`, `Trash`, `KeyChange`). Any question about a folder may be answered with
  something else than 200 (`Answers200`), which the code takes for "not there": a search that was
  not answered (`unseen`) makes a second root, and a root in place may be given up for the
  configured one (`GivenUp`, `unrecorded`). In `MCPlatform` the part `google` is the account with
  the configured folder, `drive` the folders under one consent, which may be revoked; the theorems
  are about both together. One request at a time builds folders; two at once
  would make duplicates, which nothing in the code prevents.
- `Cutover`: each script is a sequence of statements that commit alone; it may fail or die after
  each of them, and any of the scripts may be started next.
- `Provisioning`: the statements of `provision_owner`, each a step because each commits by itself
  (for a schema `GrantUsage`, `GrantTables`, `SetDefault`), with migrations by either role and a
  death between any two. `overtaken` remembers a migration that a run may have passed over.
- `DatabaseIdentity`: every user, host and database name against the guard, the preflights,
  the marker and the provisioning.
- `RecoveryRows`: all links between two jobs, their companies, applications and children, under
  every class; the selection of `phase3_build_candidate.py`, with and without the tagging before it.
- `AlertParsing`: mails of two entries with gaps, layouts, tracked and repeated links.
- `JobSources`: every source under every configuration and behaviour of its site.
- `TitleMatching`, `Scoring`, `PolicyOverrides`, `JobPages`: all inputs over small domains.

## 3. What the runs check

| Run | Instance | Shows |
|---|---|---|
| `versions_race` | 1 job, 3 requests, 2 stamps, 1 or 3 threads | one row per number, numbers are dense, the submitted version is frozen, documents are never taken for one another; one at a time, files and Drive copies are intact |
| `versions_batch` | 2 jobs, 2 requests (batch, submit), 2 threads, fair | the store implements the archive, every request ends although batches keep locks |
| `versions_overwrite` | 1 job, 4 requests | **violated**: a submitted document can be overwritten (section 5) |
| `workflow_all` | 2 postings of one position, 1 death, 2 days; 4 requests on 1 thread, or 3 racing (`MaxServed`, `Events`) | no invented submission, blocked until overridden; one at a time, no double submission, and the ledger follows the applications |
| `workflow_stale_override` | 3 jobs, 4 requests, 1 thread | **violated**: an old override excuses a new duplicate |
| `policy_all` | 2 rows, 2 overrides, 3 requests of every kind, 1 or 3 threads, restarts, fair | memory and table agree, only activated overrides are used, previews judge their own candidate, an owner with a policy keeps exactly one, every request ends |
| `policy_two_active` | 2 rows, 4 requests | **violated**: two active versions |
| `policy_leaked_preview` | 1 row, 2 previews | **violated**: a candidate stays in use |
| `intake_all` | 5 messages and 7 postings (2 messages and 1 posting with text that the database refuses), 3 boards, 3 requests, 1 to 3 threads, 1 death when serial, 2 parser versions, fair | no mail forgotten or processed twice, one eligible job per position and URL, boards harmed by nothing but refused data, approvals have jobs, intake keeps its ledger, every request ends |
| `intake_boards` | 4 messages, the 3 boards, 1 thread, no death | **violated**: a board with a posting too long for its column makes the later ones fail |
| `intake_retitled` | 4 messages, 2 boards, 1 thread, no death | **violated**: a third posting under one URL makes its look-up raise |
| `platform` | one part per behaviour, below | one or two laws per part |

| Part of `platform` | Laws |
|---|---|
| `freshJobs` | `ListedIsAccepted`, `AuditSettlesEligibility` |
| `sessions`, `budget` | `OnlyLiveSessionsEnter`, `SpendNearCap` |
| `google`, `drive` | `HealthyMeansUsable`, `OneOfEachFolder` |
| `cutover`, `provisioning` | `FailedCutoverRestores`, `PreparedForRuntime` |
| `decisions` | `PolicyKeepsSafety`, `TitleMatchIsEmbedding`, `PagesCoverTheList`, `AdviceIsConsistent`, `OneIdentityPerDatabase`, `RecoveredRowsHaveParents`, `EntriesKeepTheirFacts`, `InventoryTellsWhatRuns` |

**Bounds, and why they are enough.** Locks, counters and unique keys relate requests to one
row, and every finding about versions and policies needs two or three racing requests: three requests show an overtaken
snapshot (one loads, one commits, one submits) and the four of `versions_overwrite` one more
step. Two jobs are what a lock cycle and a duplicate need, and a third (at the same company,
another position) what an override for a weaker reason needs. Two days separate a live
override from an expired one because `OverrideTtlDays` is 0. `Cardinality(Ids)` bounds the
drafts, `MaxCrashes` and `MaxDay` deaths and days of the workflow and the intake; deaths and
restarts in the first two modules need no bound. The mailbox has an alert with two postings, an
unclear message, and two messages of one thread, one of them about a job of the alert; one board
repeats the alert's URL under new titles, the last its position: each of the look-ups of
ingestion finds something. The board between them lists a posting that is refused, the fifth
message has a refused subject, and the unclear one cannot be quarantined for the same reason: so
each INSERT that may fail on its data does. A fetch takes three of the five messages. In `platform` the days of a
job pass every tier and its expiry; two sessions and two requests are what a revocation racing a
look-up needs; three consents, two root folders and four subfolders let a retry meet what an earlier
request has left behind; three scripts let an undo and a repair follow a failed cutover; three
migrations put the marker's in the middle, between a run's statements too; titles have up to four words, the list up to three
rows on pages of one to three (`MaxListed`), a window reaches two lines (`Radius`), and four hosts and
two ports are what the guard's rules on hosts tell apart. Requests are served once, so all runs are finite and a finished
system stops: that is why deadlock checking is off. `EveryRequestEnds` says that nothing
stops earlier.

**Why "WhenSerial".** Some properties are true only while requests do not overlap
(`workers = 1`); overlapping requests break them by design of the code: the ledger may lag
or gain two rows for one application (it has no unique key), two postings may be submitted at
the same time, and a file may be overwritten between commit and upload. The runs keep both
numbers of threads where the same behaviour is asked about both. A batch that fails for one
job leaves `PACKET_GENERATING` and a gap in its numbers (`DenseNumbers` excludes batches);
`docs/validation/review/CLAUDE-CODE-REVIEW-RESULTS.md` knows of the former.

**Fairness.** `FairSpec` (versions and policy) and the specification of `Intake` use it: weak fairness of each request's own steps. A served
request is a thread of the pool, which the operating system schedules; a waiter gets its row
lock when the holder ends, and PostgreSQL's deadlock detector ends one member of a lock cycle,
which `DeadlockVictim` makes a step of that request. Refusals (`Refuse`, `CheckFails`) are not
part of it: a request that waits for a lock has to get it. There is no fairness on arrivals, deaths,
Gmail or the calendar. In `Intake` a claim that waits for another session's row gets it when that
session commits or ends. The preview lock needs only weak fairness because every request arrives
once, so a waiting preview cannot be overtaken for ever.

## 4. What is proved

Each theorem holds for every value of the constants that satisfies the named assumptions of the
module: any set of jobs, requests, messages, postings, sessions, folders or migrations, any number of
threads and of deaths. Almost none of the properties is inductive: each depends on what sessions remember and on
the locks they hold, which the inductive invariants spell out. TLC finds each of those true on the instances above too, with
`Nat` cut to a finite range where it is enumerated. Type correctness of versions, workflow, policies
and intake is a theorem of its own (`TypeCorrect`, `IntakeTypeCorrect`); elsewhere it is part of the invariant.

**`DocumentVersionsProofs`** (`NonEmptyAssumption`, `KindsAssumption`, `WorkersAssumption`).
`TypeCorrect`, `NumbersAreUnique` (`OneRowPerNumber`), `SubmissionIsFrozen` (`SubmittedIsFrozen`),
`NumbersAreDense` (`DenseNumbers`) and `StoreImplementsArchive`, the refinement of
`DocumentArchive`. `IInv` adds to the properties

- `LocksHeld`: from allocation to the end of the transaction a request holds its application's
  row, and no two requests hold one row;
- `PendingRow`: only a request about to commit has a flushed version row, exactly one, and its
  number is still unused. That survives another request's commit because of `LocksHeld`, although
  the number was computed from a stale counter;
- `PickedVersion`: the version selected for submission is registered and, if it was immutable
  when selected, still is;
- `FrozenVersions`: immutable versions are registered, their number is not 0, and their job has a
  submitted version;
- `SubmitterWrites`: a flushed `SUBMITTED` belongs to a mark-submitted about to commit, so no
  leftover of a batch can commit one.

Most steps are *calm* (`Calm`): they end with no number allocated and no version selected and
change none of the tables concerned. One lemma, `CalmIInv`, deals with all of them; the six
others and the environment have a lemma each. In the refinement only
`Commit` (an `Append`, its number being unused) and a `CommitSubmitted` that freezes (a `Submit`)
are visible. `NumbersAreDense` adds, under `NoBatch`, that no session has seen
a counter ahead of the committed one (`NotAhead`) and that the only counter a request has pending is
that of the packet it is writing (`OwnCounter`); a number that is not taken is then the next one.

About the files, `FilesNeverSwapped` (`NeverSwapped`) needs no lock: a request renders a job
at most once (`JobTaken`, `Rendered`), so a file and a version with one content and one job are one
document, wherever they are found (`OncePerJob`). `CopiesIntact` (`CopiesIntactWhenSerial`) rests on
`SerialInv`: with one thread a flushed counter, even one left behind by a failed job of a batch, is ahead
of the committed one (`Counters`), so what is written is numbered past every registered version and what is
registered stays in place (`Kept`).

**`ApplicationWorkflowProofs`** (`WorkflowAssumption`, `IdentityAssumption`). `TypeCorrect`,
`NothingInvented` (`NoInventedSubmission`), `BlockedStays` (`BlockedUntilOverride`, an action property),
`SubmittedOnce` (`NoDoubleSubmissionWhenSerial`), `LedgerFollows` (`LedgerFollowsWhenSerial`). For the
first three, `IInv` says what a request has behind it after its commit (`Session`) and that a date in
ledger or timeline is that of an application that has one (`Reported`). `SubmittedOnce` counts deaths: an
application is in the ledger unless its request is still to record it or died, and it takes two
deaths to leave out a submission, because its packet's commit came before (`ListedUnlessDied`); so
whoever passed the check had no duplicate in the ledger or an override (`Passed`). `LedgerFollows`
relates each note that a request carries to the application it was read from (`NotesCurrent`).

**`DiscoveryPolicyProofs`** (`PolicyAssumption`). `TypeCorrect` (the greatest number that a draft reads
exists, `Numbered`), `InUseWasActivated` (`OnlyActivatedInUse`), `LockIsolatesPreviews`
(`PreviewJudgesItsCandidate`), `SerialConsistent` (`ConsistentWhenSerial`) and `OnePolicy`
(`OnePolicyWhenSerial`, an action property). `Session` ties what a request has bound to
its state, `LockHeld` gives the lock to whoever has borrowed the override, `CandidateInMemory` says whose the
override in memory is. One at a time, what a request has read is still so (`StillSo`) and memory
is the table's but for the request about to publish or put it back (`UpToDate`).

**`IntakeProofs`** (`IntakeAssumption`, `PostingAssumption`). `Invariant` (`IInv`), `IntakeTypeCorrect`,
`NoMailForgotten` (`NothingForgotten`), `NoMailTwice` (`NothingTwice`), `ApprovalFollowsIngestion`
(`ApprovedHasJob`); with one worker `SerialInvariant`, `OneEligibleJob`
(`OneEligibleJobWhenSerial`), `BoardsIsolated` (`BoardsIsolatedWhenSerial`). `RowSays` is what a row
tells of its message: complete means signal and output, failed means flagged for replay, and no signal
stands without its row or, for an alert, without its postings. It survives the steps of others because
a session that works on a message has its claim (`Claimed`), the postings it no longer has to do are
covered (`MailFits`), an owner's decision comes after the ingestion (`OwnerFits`), and jobs
and signals only grow (`Grows`, `TablesGrow`). One worker finds the tables as it left them
(`AloneFits`): no unique key fails, and a session is broken only by data that the database refuses
(`Clean`, `AnyRefused`, which `BoardsIsolated` hands on: a board that fails was not answered, raised itself,
or follows one whose posting was refused). Where one would induct over a list of
postings, the proofs take the least element of a set of indices (`LeastNatural`).

`IntakeKeepsLedger` (`ImplementsLedger`) is the refinement of `IntakeLedger`. Beyond `IInv` it needs
`LInv`: a job about to be committed is in no table and in no other session, because a second INSERT
of its source key waits or fails, so that no posting is decided twice; and a message that nothing
could be read in never gets a signal. With `IInv` a message is left out exactly when it has a signal
and no flag for replay (`SettledUnflagged`), so that `Claim`, `RecordFailure`, a new parser and
`Backfill` are seen not to touch `dropped`. Each visible action has a lemma that says which step of
the ledger it is.

**`FreshJobsProofs`** (`OffersAssumption`, `TierAssumption`, `SalaryAssumption`, `HitsAssumption`).
`RowInvariant`: a row keeps the receipt of its posting, its effective time is not younger than the time
the audit goes by (`Kept`), and what was accepted fits its posting unless its country code vouched
for it (`Accepted`). From it `ListedStaysAccepted` (`ListedIsAccepted`) and, with what an audit
settles (`SettledRow`), `AuditSettles` (`AuditSettlesEligibility`). `AdviceHolds` (`AdviceIsConsistent`)
is arithmetic over any number of hits and any salary.

**`ServicesProofs`**.
- `SpendingNearCap` (`SpendNearCap`; `CostAssumption`, `WorkersAssumption`): what is
  spent leaves room, besides a work in flight, for one of the dearest per free worker (`RoomFor`).
- `OnlyTheLivingEnter` (`OnlyLiveSessionsEnter`; `LifetimeAssumption`): a row may change or go between
  look-up and touch, but a token is not issued twice, so that what is written back is of the same sign-in
  (`StillTheSame`) and a revoked session stays over (`Over`).
- `HealthIsTrue` (`HealthyMeansUsable`; `LinksAssumption`): callbacks save the services in one order, so
  that a row is of no older consent than those saved after it (`AccountInv`); when Drive's works,
  Gmail's cannot be of a revoked consent.
- `FoldersAreUnique` (`OneOfEachFolder`): a root in the bin stays there and takes its
  subfolders along, an unfinished building holds a front part of the list (`Halfway`), and what is recorded
  is all under one root that is the current one, in the bin, or given up since (`RecordedInv`, `Current`).
  That the root is the only one needs every search for it to have been answered (`unseen`); one subfolder
  of each name under each root does not, because a search for a subfolder that fails ends the building.

**`DatabasesProofs`**.
- `PreparedServes` (`PreparedForRuntime`; `VersionAssumption`): what the statements so far have settled
  (`Settled`, `Ready`) stays so whatever migrations come between them: once the default privileges of a
  schema are set, a new table is granted as it is made, also while a run is repeated. Two migrations
  that come during a run set `overtaken`, and the law does not speak of that run: one by the bootstrap
  user, and one that makes a table before the default privileges of its schema were ever set.
- `FailedCutoverUndone` (`FailedCutoverRestores`): the databases are `Well` marked, and every script
  that is under way stands at one of a list of known points (`Started1`), whatever was cut off before.
- `RecoveryKeepsParents` (`RecoveredRowsHaveParents`; `KindsOfRowsAssumption`): tagging only marks live
  rows, by signs that stay, so classes stay; a company with a kept job has a live one and is not tagged.

- `IdentitiesApart` (`OneIdentityPerDatabase`): by the branches of the guard, for any hosts, ports and
  identifiers; the users and the database names are those that the code knows.

**`DecisionsProofs`**. No induction is available, so what a fold or a list does is argued by least
elements (`LeastNatural`) and by counting.
- `InventoryIsTrue` (`InventoryTellsWhatRuns`; `BoardsAssumption`): by cases over what a source needs and
  how its site answers.
- `PolicyIsSafe` (`PolicyKeepsSafety`; `FileAssumption`): what compiles has known sections with known keys
  (`CompiledSections`), a merge takes the owner's value where there is one (`MergedValue`), reject patterns
  only grow (`RejectionsStay`), and an owner's freshness is no shorter than the file's (`TiersStayInOrder`).
- `TitleMatchIsExact` (`TitleMatchIsEmbedding`; `TokensAssumption`): the number of tokens found grows by at
  most one with each word, so the words at which it grows are a placement (`PassFindsAPlace`); there is no
  least token that a placement has and the pass has not yet found (`PassMissesNone`).
- `PagesCoverEveryList` (`PagesCoverTheList`; `PagesAssumption`): a row without ties stands, in every order
  the database may answer with, behind exactly the rows that precede it (`PlaceOfUnique`, by cardinality),
  hence always on the same page (`PageOfPlace`).
- `EntriesKeepFacts` (`EntriesKeepTheirFacts`; `RadiusAssumption`, `MailsAssumption`): a window consists of
  the lines near the first line that holds its URL (`WindowIsAround`), what is extracted from a window that
  states one job is that job's (`ExtractedAlone`), and only entries with title and employer reach 72 (`TheBar`).

**Hypotheses that the theorems name**, each a condition under which the law is true and without
which it is not:

- `DefaultTiersShown`: the three young tiers are shown, as `config/job-discovery-policy.yml:10` has it. An
  owner's policy may show fewer; the audit then hides what the list, which goes by age alone, showed.
- `RubricFits`: `TargetSalary <= 10 * RejectBelow`. A salary below the floor scores 10 of 100, one above
  it its share of the target, which must not be less. The rubric has 200000 and 170000
  (`config/scoring-rubric.yml:17-19`).

Proving changed the models where a law leaned on an accident of the instance: two postings without a URL
are not of one URL (`OneEligibleJobWhenSerial` speaks of `SameUrl`, as the look-up does), a token
row is chosen without reading a sequence (`Readable`), companies of recovery are a constant
(`CompanyIds`), the inputs of every decision are constants, the pass over a title is a recursive
function, and assumptions on constants that the definitions relied on are now stated.

**Only model-checked.**
- `EveryRequestEnds` (of versions and of policies) and `RequestsEnd`: liveness, fairness and ENABLED
  are out of the prover's reach.
- The properties of the runs that expect a violation.

## 5. Where code and documentation disagree

1. *Submitted documents can be overwritten* (`versions_overwrite`; `document_versions.py:142`,
   `docs/releases/R2.5.0.md:33`). Version 1 exists. A generation
   loads the application with counter 1; another one commits version 2, which is then marked
   submitted. The first still counts to 2: it waits for the row lock, writes to the path of
   version 2, and only then does the immutability check refuse it. The version row survives, its
   document does not.
2. *Two active policies* (`policy_two_active`; `discovery_policy_service.py:365`). Both activations
   read the active rows before either commits.
3. *A preview leaves its candidate in use* (`policy_leaked_preview`;
   `discovery_policy_service.py:466`). The override to put back is bound before the lock is taken.
4. *A stale override* (`workflow_stale_override`; `duplicate_risk.py:254`). An override recorded for
   a caution excuses, while it lives, an exact duplicate submitted afterwards.
5. *Retitled postings are not persisted for long* (`intake_retitled`; `ingestion.py:108`). The
   comment at `ingestion.py:130` has a posting under a known URL with another title stored. Once two
   rows have that URL, `one_or_none()` raises for the third: the board ends with an error on every
   run, and a synchronisation stops at that message every time.
6. *Boards do not continue independently* (`intake_boards`; `fresh_jobs_discovery.py:128`,
   `docs/runbooks/LEVER_CONNECTOR.md:32`). A posting longer than its column fails at the flush; the
   campaign catches the error, makes no rollback and goes on in the same session, which refuses to
   work: the boards after it fail although nothing is wrong with them.

Exceptions that the laws name, each met while modelling: a job whose country code alone vouched for
it is accepted by ingestion and not by the audit, whose payload lacks the code; a job that only its
tracking keeps on the list is historical for the audit (`ListedIsAccepted`), although
`routers/jobs.py:63` has tracked jobs never age out; after a cutover the candidate's tables keep
their owner, so that a later migration that alters them fails, and a run overtaken by a migration of
the bootstrap user, or by one before the default privileges of its schema were ever set passes with
a table that runtime may not read, until the next run (`PreparedForRuntime`); a root that was stored
by a request cut off before its subfolders were, or that was given up while in place because Google
did not answer, leaves those of another root recorded, and a search for the root that is not
answered with 200 counts as one that found nothing, so that a second root of the same name is made
(`OneOfEachFolder`; `drive_settings.py:73`), although
`docs/Program/R2-Execution-Pack/06-DOCUMENT-NAMING-STORAGE-AND-LINKING.md:21` has "Use the existing
app-created Drive root."; a company whose jobs are of several classes is ambiguous and left out of
the import (`RecoveredRowsHaveParents`, which asks about jobs, applications and the company of a
job: not about the companies of ledger rows, signals and representations, nor about the order of
insertion, in which an application comes before the version its `submitted_version_id` names,
`phase3_build_candidate.py:269-270`); a refused run leaves no row, so that health speaks of an older
one, and a feed that is not configured counts as ready (`InventoryTellsWhatRuns`). Jobs that tie in
every sort key may appear on two pages or on none (`PagesCoverTheList`). Publishing a low salary,
and more leadership without technical scope, cost points (`AdviceIsConsistent`).

## 6. Plan

Every safety property and every action property of the passing runs is stated by a theorem. What
would come next:

1. An abstract register of submissions for `ApplicationWorkflow`, and one policy replaced as a whole
   for `DiscoveryPolicy` with one worker: the two components that have laws and no abstract
   specification yet.
2. The baseline date of Gmail synchronisation and the correction of a signal's label, which `Intake`
   leaves out.

## 7. Not modelled, and why

- Resume building and quality, interviews, consulting, Ask Aarohan: rendering, text checks, queries
  and single-row inserts without a protocol of their own; the models know only that a packet may be
  refused.
- The verified-backup gate: `assert_same_run_backup_manifest` hands a string to a function that
  calls `.exists()` on it (`owner_database_identity_preflight.py:263`), so it always raises.
- HTTP calls, HTML, AI prompts, the wording of explanations, trust points, provenance labels beyond
  fixture or not: data that no law tells apart. Audit rows are append-only and read by nobody the
  models look at.
- A backfill that races a synchronisation, which may have a finished message processed again
  (`gmail_replay.py:266`): a hazard without a property.
- The privileges on sequences, granted beside those on tables, and the order in which recovered
  rows are inserted.
- Validation probes, evidence emitters and rehearsals under `scripts`: reports over stored data.
- The web front end, n8n workflows, PowerShell scripts and Docker files run the program and do not
  take part in it.

`PROJECT.json` lists every component with its status, and every hazard at its line.
