-------------------------- MODULE DocumentVersions --------------------------
(***************************************************************************)
(* Immutable document versions: packet generation (services/documents.py,  *)
(* services/document_versions.py), the batch endpoint that drives it       *)
(* (routers/workflows.py) and mark_submitted (services/approval.py).       *)
(*                                                                         *)
(* Every HTTP request is served by a thread with its own SQLAlchemy        *)
(* session.  A session works on attributes it loaded earlier (snap) and    *)
(* collects flushed writes that other sessions see only after commit       *)
(* (wJob, wApp, wLatest, wRows).  A flushed write to a row is that row's   *)
(* PostgreSQL lock.  Files are written in place, outside the transaction.  *)
(* A document is identified by the request that rendered it.               *)
(***************************************************************************)
EXTENDS Naturals, FiniteSets

CONSTANTS
    Jobs,           \* job postings; each has at most one application
    Requests,       \* HTTP requests, each served once
    Stamps,         \* resume profile and date: the part of a path that varies
    Kinds,          \* kinds of request that arrive
    Workers         \* possible numbers of worker threads of the API process

AllKinds == {"generate", "batch", "submit"}

ASSUME NonEmptyAssumption == Jobs # {} /\ Stamps # {}
ASSUME KindsAssumption == Kinds \subseteq AllKinds
ASSUME WorkersAssumption == Workers \subseteq Nat

VARIABLES
    jobState,       \* committed jobs.state
    appState,       \* committed applications.state; "NONE" = no such row
    latest,         \* committed applications.latest_version_number
    submitted,      \* committed submitted_version (its number); 0 = NULL
    versions,       \* committed application_document_versions rows
    frozen,         \* <<job, number>> with is_submitted_immutable
    files,          \* the documents on disk, at most one per path
    drive,          \* what the Drive copy recorded for a version contains
    workers,        \* worker threads, fixed when the process starts
    pc, kind, todo, cur, snap, stamp, fresh,    \* per request
    wJob, wApp, wLatest, wRows                  \* flushed, uncommitted writes

db == <<jobState, appState, latest, submitted, versions, frozen>>
session == <<workers, kind, todo, cur, snap, stamp, fresh>>
writes == <<wJob, wApp, wLatest, wRows>>
vars == <<db, files, drive, pc, session, writes>>

JobStates == {"OTHER", "PACKET_GENERATING", "PACKET_READY", "SUBMITTED"}
AppStates == {"NONE", "SHORTLISTED", "PACKET_READY", "SUBMITTED"}
Row == [job : Jobs, number : Nat, stamp : Stamps, content : Requests]
Copy == [job : Jobs, number : Nat, content : Requests]
Snapshot == [jobState : JobStates, appState : AppStates, latest : Nat]
PCs == {"idle", "next", "loaded", "checked", "flushed", "allocated", "written",
        "registered", "committed", "picked", "viewed", "selected", "locked",
        "done"}

TypeOK ==
    /\ jobState \in [Jobs -> JobStates]
    /\ appState \in [Jobs -> AppStates]
    /\ latest \in [Jobs -> Nat]
    /\ submitted \in [Jobs -> Nat]
    /\ versions \subseteq Row
    /\ frozen \subseteq Jobs \X Nat
    /\ files \subseteq Row
    /\ drive \subseteq Copy
    /\ workers \in Workers
    /\ pc \in [Requests -> PCs]
    /\ kind \in [Requests -> AllKinds]
    /\ todo \in [Requests -> SUBSET Jobs]
    /\ cur \in [Requests -> Jobs]
    /\ snap \in [Requests -> Snapshot]
    /\ stamp \in [Requests -> Stamps]
    /\ fresh \in [Requests -> BOOLEAN]
    /\ wJob \in [Requests -> [Jobs -> JobStates \union {"SAME"}]]
    /\ wApp \in [Requests -> [Jobs -> AppStates \union {"SAME"}]]
    /\ wLatest \in [Requests -> [Jobs -> Nat]]
    /\ wRows \in [Requests -> SUBSET Row]

SomeJob == CHOOSE j \in Jobs : TRUE
SomeStamp == CHOOSE s \in Stamps : TRUE
NoSnapshot == [jobState |-> "OTHER", appState |-> "NONE", latest |-> 0]
Clean(v) == [j \in Jobs |-> v]

Init ==
    /\ jobState = Clean("OTHER") /\ appState = Clean("NONE")
    /\ latest = Clean(0) /\ submitted = Clean(0)
    /\ versions = {} /\ frozen = {} /\ files = {} /\ drive = {}
    /\ workers \in Workers
    /\ pc = [r \in Requests |-> "idle"]
    /\ kind = [r \in Requests |-> "generate"]
    /\ todo = [r \in Requests |-> {}]
    /\ cur = [r \in Requests |-> SomeJob]
    /\ snap = [r \in Requests |-> NoSnapshot]
    /\ stamp = [r \in Requests |-> SomeStamp]
    /\ fresh = [r \in Requests |-> FALSE]
    /\ wJob = [r \in Requests |-> Clean("SAME")]
    /\ wApp = [r \in Requests |-> Clean("SAME")]
    /\ wLatest = [r \in Requests |-> Clean(0)]
    /\ wRows = [r \in Requests |-> {}]

-----------------------------------------------------------------------------
(* Row locks: a flushed write holds its row until commit or rollback.      *)

HoldsJob(r, j) == wJob[r][j] # "SAME"
HoldsApp(r, j) == wLatest[r][j] # 0
JobFree(r, j) == \A q \in Requests \ {r} : ~HoldsJob(q, j)
AppFree(r, j) == \A q \in Requests \ {r} : ~HoldsApp(q, j)

Discard(r) ==
    /\ wJob' = [wJob EXCEPT ![r] = Clean("SAME")]
    /\ wApp' = [wApp EXCEPT ![r] = Clean("SAME")]
    /\ wLatest' = [wLatest EXCEPT ![r] = Clean(0)]
    /\ wRows' = [wRows EXCEPT ![r] = {}]

(* The session is closed: a served request leaves nothing behind.          *)
Close(r) ==
    /\ Discard(r)
    /\ todo' = [todo EXCEPT ![r] = {}]
    /\ cur' = [cur EXCEPT ![r] = SomeJob]
    /\ snap' = [snap EXCEPT ![r] = NoSnapshot]
    /\ stamp' = [stamp EXCEPT ![r] = SomeStamp]
    /\ fresh' = [fresh EXCEPT ![r] = FALSE]

Goto(r, label) == pc' = [pc EXCEPT ![r] = label]

(* Mutant: the request ends but its session is never closed.               *)
AbortKeepingLocks(r) ==
    /\ Goto(r, "done")
    /\ UNCHANGED <<db, files, drive, session, writes>>

(* The session is closed without a commit: its writes are rolled back.     *)
Abort(r) ==
    /\ Goto(r, "done")
    /\ Close(r)
    /\ UNCHANGED <<db, files, drive, workers, kind>>

(* A ValueError: the single endpoint answers 409 and closes the session;   *)
(* the batch endpoint notes the error and goes on in the SAME session, so  *)
(* what the failed job has flushed stays pending.                          *)
Fail(r) ==
    \/ kind[r] # "batch" /\ Abort(r)
    \/ /\ kind[r] = "batch"
       /\ Goto(r, "next")
       /\ UNCHANGED <<db, files, drive, session, writes>>

-----------------------------------------------------------------------------
(* Arrival of a request and packet generation.                             *)

InFlight == {r \in Requests : pc[r] \notin {"idle", "done"}}

Begin(r) ==
    /\ pc[r] = "idle"
    /\ Cardinality(InFlight) < workers
    /\ \E k \in Kinds, T \in SUBSET Jobs \ {{}} :
         /\ k # "batch" => Cardinality(T) = 1
         /\ kind' = [kind EXCEPT ![r] = k]
         /\ todo' = [todo EXCEPT ![r] = T]
    /\ Goto(r, "next")
    /\ UNCHANGED <<db, files, drive, workers, cur, snap, stamp, fresh, writes>>

TakeJob(r, j) ==
    /\ j \in todo[r]
    /\ todo' = [todo EXCEPT ![r] = @ \ {j}]
    /\ cur' = [cur EXCEPT ![r] = j]

(* A row is read into a session that has seen x.                           *)
SeesJob(x, j) == [x EXCEPT !.jobState = jobState[j]]
SeesApplication(x, j) == [x EXCEPT !.appState = appState[j], !.latest = latest[j]]

(* The job is read into the session.                                       *)
Load(r) ==
    /\ pc[r] = "next" /\ kind[r] # "submit"
    /\ \E j \in Jobs : /\ TakeJob(r, j)
                      /\ snap' = [snap EXCEPT ![r] = SeesJob(NoSnapshot, j)]
    /\ Goto(r, "loaded")
    /\ UNCHANGED <<db, files, drive, workers, kind, stamp, fresh, writes>>

JobAfter(r) ==
    [i \in Jobs |-> IF wJob[r][i] = "SAME" THEN jobState[i] ELSE wJob[r][i]]
AppAfter(r) ==
    [i \in Jobs |-> IF wApp[r][i] = "SAME" THEN appState[i] ELSE wApp[r][i]]

(* Mutant: the incremented counter is not saved.                           *)
LatestUnsaved(r) == latest

LatestAfter(r) ==
    [i \in Jobs |-> IF HoldsApp(r, i) THEN wLatest[r][i] ELSE latest[i]]

(* The risks are evaluated and the job's application is read.  Linking the *)
(* job to its company, if it has none yet, commits what the session has    *)
(* pending and refreshes the job.                                          *)
CheckRisk(r) ==
    LET j == cur[r] IN
    /\ pc[r] = "loaded"
    /\ \/ /\ snap' = [snap EXCEPT ![r] = SeesApplication(snap[r], j)]
          /\ UNCHANGED <<jobState, appState, latest, writes>>
       \/ /\ jobState' = JobAfter(r)
          /\ appState' = AppAfter(r)
          /\ latest' = LatestAfter(r)
          /\ Discard(r)
          /\ snap' = [snap EXCEPT ![r] = [jobState |-> jobState'[j],
                                          appState |-> appState'[j],
                                          latest |-> latest'[j]]]
    /\ Goto(r, "checked")
    /\ UNCHANGED <<submitted, versions, frozen, files, drive, workers, kind, todo,
                   cur, stamp, fresh>>

(* Budget, duplicate risk or representation risk refuses the job before    *)
(* anything is written.                                                    *)
Refuse(r) == pc[r] \in {"loaded", "checked", "viewed"} /\ Fail(r)

(* job.state = PACKET_GENERATING and, for a first packet, the INSERT of    *)
(* the application.  An unchanged state is not part of the UPDATE, so no   *)
(* job lock is taken then.                                                 *)
FlushJob(r) ==
    LET j == cur[r]
        lock == snap[r].jobState # "PACKET_GENERATING"
        insert == snap[r].appState = "NONE" IN
    /\ pc[r] = "checked"
    /\ lock => JobFree(r, j)
    /\ \/ /\ insert /\ appState[j] # "NONE"     \* unique applications.job_id
          /\ Abort(r)
       \/ /\ ~insert \/ appState[j] = "NONE"
          /\ wJob' = [wJob EXCEPT ![r][j] = IF lock THEN "PACKET_GENERATING" ELSE @]
          /\ wApp' = [wApp EXCEPT ![r][j] = IF insert THEN "SHORTLISTED" ELSE @]
          /\ Goto(r, "flushed")
          /\ UNCHANGED <<db, files, drive, session, wLatest, wRows>>

(* No public evidence, an error while rendering, a contradiction of the    *)
(* factual core, or a failed quality report.                               *)
CheckFails(r) == pc[r] \in {"flushed", "allocated", "written"} /\ Fail(r)

(* Mutant: the counter is incremented twice.                               *)
NextNumberTwice(r) == snap[r].latest + 2

NextNumber(r) == snap[r].latest + 1

(* SELECT ... FOR UPDATE waits for the row lock, but the object already    *)
(* loaded in the session keeps its attributes: the number is computed from *)
(* the snapshot.                                                           *)
Allocate(r) ==
    LET j == cur[r] IN
    /\ pc[r] = "flushed"
    /\ AppFree(r, j)
    /\ wLatest' = [wLatest EXCEPT ![r][j] = NextNumber(r)]
    /\ Goto(r, "allocated")
    /\ UNCHANGED <<db, files, drive, session, wJob, wApp, wRows>>

(* Mutant: the folder of a packet does not name its version.               *)
SamePathUnversioned(a, b) == a.job = b.job /\ a.stamp = b.stamp

(* Company folder, role, date, profile and version number make the path.   *)
SamePath(a, b) == a.job = b.job /\ a.number = b.number /\ a.stamp = b.stamp

Document(r, s) ==
    [job |-> cur[r], number |-> NextNumber(r), stamp |-> s, content |-> r]

WriteFile(r) ==
    /\ pc[r] = "allocated"
    /\ \E s \in Stamps :
         /\ files' = {f \in files : ~SamePath(f, Document(r, s))}
                        \union {Document(r, s)}
         /\ stamp' = [stamp EXCEPT ![r] = s]
    /\ Goto(r, "written")
    /\ UNCHANGED <<db, drive, workers, kind, todo, cur, snap, fresh, writes>>

Frozen(row) == <<row.job, row.number>> \in frozen
Taken(j, n) == \E v \in versions : v.job = j /\ v.number = n

(* Mutant: the table has no uq_app_doc_version.                            *)
NeverUniqueViolation(row) == FALSE

UniqueViolation(row) == Taken(row.job, row.number)

(* The immutability check looks at the file that has just been written; a  *)
(* number that is taken violates uq_app_doc_version.                       *)
Register(r) ==
    LET doc == Document(r, stamp[r])
        overwritten == \E v \in versions : Frozen(v) /\ SamePath(v, doc) IN
    /\ pc[r] = "written"
    /\ \/ overwritten /\ Fail(r)
       \/ ~overwritten /\ UniqueViolation(doc) /\ Abort(r)
       \/ /\ ~overwritten /\ ~UniqueViolation(doc)
          /\ wRows' = [wRows EXCEPT ![r] = @ \union {doc}]
          /\ Goto(r, "registered")
          /\ UNCHANGED <<db, files, drive, session, wJob, wApp, wLatest>>

(* Both states become PACKET_READY and the transaction commits, with       *)
(* whatever earlier failed jobs of the same batch have left pending.       *)
Commit(r) ==
    LET j == cur[r] IN
    /\ pc[r] = "registered"
    /\ JobFree(r, j)
    /\ jobState' = [JobAfter(r) EXCEPT ![j] = "PACKET_READY"]
    /\ appState' = [AppAfter(r) EXCEPT ![j] =
                      IF snap[r].appState = "PACKET_READY" THEN @ ELSE "PACKET_READY"]
    /\ latest' = LatestAfter(r)
    /\ versions' = versions \union wRows[r]
    /\ Discard(r)
    /\ Goto(r, "committed")
    /\ UNCHANGED <<submitted, frozen, files, drive, session>>

(* After the commit the file is uploaded to Drive, or the upload is        *)
(* skipped or fails; then usage, ledger and timeline are recorded.         *)
UploadToDrive(r) ==
    /\ pc[r] = "committed"
    /\ \/ \E f \in files :
            /\ SamePath(f, Document(r, stamp[r]))
            /\ drive' = drive \union {[job |-> f.job, number |-> f.number,
                                       content |-> f.content]}
       \/ UNCHANGED drive
    /\ Goto(r, "next")
    /\ UNCHANGED <<db, files, session, writes>>

Finish(r) == pc[r] = "next" /\ todo[r] = {} /\ Abort(r)

-----------------------------------------------------------------------------
(* mark_submitted.                                                         *)

PickApplication(r) ==
    /\ pc[r] = "next" /\ kind[r] = "submit"
    /\ \E j \in Jobs :
         /\ TakeJob(r, j)
         /\ snap' = [snap EXCEPT ![r] = SeesApplication(snap[r], j)]
    /\ Goto(r, "picked")
    /\ UNCHANGED <<db, files, drive, workers, kind, stamp, fresh, writes>>

(* evaluate_duplicate_risk(application.job) is the first to read the job.  *)
ReadJob(r) ==
    /\ pc[r] = "picked"
    /\ snap' = [snap EXCEPT ![r] = SeesJob(@, cur[r])]
    /\ Goto(r, "viewed")
    /\ UNCHANGED <<db, files, drive, workers, kind, todo, cur, stamp, fresh, writes>>

(* mark_version_submitted reads the version row of the snapshot's number.  *)
SelectVersion(r) ==
    LET j == cur[r]
        n == snap[r].latest IN
    /\ pc[r] = "viewed"
    /\ \/ (snap[r].appState = "NONE" \/ ~Taken(j, n)) /\ Abort(r)
       \/ /\ snap[r].appState # "NONE" /\ Taken(j, n)
          /\ fresh' = [fresh EXCEPT ![r] = <<j, n>> \notin frozen]
          /\ Goto(r, "selected")
          /\ UNCHANGED <<db, files, drive, workers, kind, todo, cur, snap, stamp,
                         writes>>

LockSubmitted(r) ==
    LET j == cur[r]
        lock == snap[r].jobState # "SUBMITTED" IN
    /\ pc[r] = "selected"
    /\ lock => JobFree(r, j)
    /\ wJob' = [wJob EXCEPT ![r][j] = IF lock THEN "SUBMITTED" ELSE @]
    /\ Goto(r, "locked")
    /\ UNCHANGED <<db, files, drive, session, wApp, wLatest, wRows>>

(* Mutants: the pointer is set to whatever is the latest version by now;   *)
(* the version is not marked immutable.                                    *)
PointsToLatest(r) == latest[cur[r]]
FreezesNothing(r) == {}

PointsTo(r) == snap[r].latest
Freezes(r) == IF fresh[r] THEN {<<cur[r], snap[r].latest>>} ELSE {}

CommitSubmitted(r) ==
    LET j == cur[r] IN
    /\ pc[r] = "locked"
    /\ AppFree(r, j)
    /\ jobState' = [jobState EXCEPT ![j] = IF HoldsJob(r, j) THEN "SUBMITTED" ELSE @]
    /\ appState' = [appState EXCEPT ![j] =
                      IF snap[r].appState # "SUBMITTED" THEN "SUBMITTED" ELSE @]
    /\ submitted' = [submitted EXCEPT ![j] = IF fresh[r] THEN PointsTo(r) ELSE @]
    /\ frozen' = frozen \union Freezes(r)
    /\ Close(r)
    /\ Goto(r, "done")
    /\ UNCHANGED <<latest, versions, files, drive, workers, kind>>

-----------------------------------------------------------------------------
(* PostgreSQL's deadlock detector, the death of the API process, and the   *)
(* other writer of jobs.state.                                             *)

BlockedBy(r, q) ==
    /\ q # r
    /\ \/ /\ pc[r] = "checked" /\ snap[r].jobState # "PACKET_GENERATING"
          /\ HoldsJob(q, cur[r])
       \/ pc[r] \in {"flushed", "locked"} /\ HoldsApp(q, cur[r])
       \/ pc[r] = "registered" /\ HoldsJob(q, cur[r])
       \/ /\ pc[r] = "selected" /\ snap[r].jobState # "SUBMITTED"
          /\ HoldsJob(q, cur[r])

DeadlockVictim(r) ==
    /\ \E Cycle \in SUBSET Requests :
         /\ r \in Cycle
         /\ \A p \in Cycle : \E q \in Cycle : BlockedBy(p, q)
    /\ Abort(r)

Crash ==
    /\ InFlight # {}
    /\ pc' = [r \in Requests |-> IF r \in InFlight THEN "done" ELSE pc[r]]
    /\ wJob' = [r \in Requests |-> Clean("SAME")]
    /\ wApp' = [r \in Requests |-> Clean("SAME")]
    /\ wLatest' = [r \in Requests |-> Clean(0)]
    /\ wRows' = [r \in Requests |-> {}]
    /\ todo' = [r \in Requests |-> {}]
    /\ cur' = [r \in Requests |-> SomeJob]
    /\ snap' = [r \in Requests |-> NoSnapshot]
    /\ stamp' = [r \in Requests |-> SomeStamp]
    /\ fresh' = [r \in Requests |-> FALSE]
    /\ UNCHANGED <<db, files, drive, workers, kind>>

(* An interview, offer or rejection mail moves the job on.                 *)
JobMovesOn(j) ==
    /\ \A r \in Requests : ~HoldsJob(r, j)
    /\ jobState' = [jobState EXCEPT ![j] = "OTHER"]
    /\ UNCHANGED <<appState, latest, submitted, versions, frozen, files, drive, pc,
                   session, writes>>

Generate(r) ==
    \/ Load(r) \/ CheckRisk(r) \/ FlushJob(r) \/ Allocate(r) \/ WriteFile(r)
    \/ Register(r) \/ Commit(r) \/ UploadToDrive(r) \/ Finish(r)

MarkSubmitted(r) ==
    \/ PickApplication(r) \/ ReadJob(r) \/ SelectVersion(r)
    \/ LockSubmitted(r) \/ CommitSubmitted(r)

Serve(r) == Generate(r) \/ MarkSubmitted(r) \/ DeadlockVictim(r)

Next ==
    \/ \E r \in Requests : Begin(r) \/ Serve(r) \/ Refuse(r) \/ CheckFails(r)
    \/ \E j \in Jobs : JobMovesOn(j)
    \/ Crash

Spec == Init /\ [][Next]_vars

(* Threads are scheduled fairly and the lock manager serves its waiters.   *)
(* No request may count on a refusal: one that waits for a lock must get   *)
(* it, or be chosen by the deadlock detector.                              *)
FairSpec == Spec /\ \A r \in Requests : WF_vars(Serve(r))

-----------------------------------------------------------------------------
Numbers(j) == {v.number : v \in {u \in versions : u.job = j}}
OnDisk(v) == \E f \in files : SamePath(f, v) /\ f.content = v.content

(* uq_app_doc_version together with the row lock: whatever requests race,  *)
(* one number of one application never denotes two documents.              *)
OneRowPerNumber ==
    \A u, v \in versions : u.job = v.job /\ u.number = v.number => u = v

(* As long as no batch has been served, a number is taken exactly when it  *)
(* is at most latest_version_number: racing, failing and dying requests    *)
(* leave no gap and no orphan row (counter and row commit together).       *)
DenseNumbers ==
    (\A r \in Requests : kind[r] # "batch") =>
      \A j \in Jobs : Numbers(j) = 1..latest[j]

(* submitted_version_id always names a registered, immutable version, and  *)
(* a job shown as SUBMITTED has one, whichever stale snapshots raced.      *)
SubmittedIsFrozen ==
    \A j \in Jobs :
      /\ submitted[j] # 0 => <<j, submitted[j]>> \in frozen /\ Taken(j, submitted[j])
      /\ jobState[j] = "SUBMITTED" => submitted[j] # 0

(* Even when a racing request overwrites the file of a version, the        *)
(* document found there is never one registered as another version.        *)
NeverSwapped ==
    \A u, v \in versions, f \in files :
      SamePath(f, u) /\ f.content = v.content /\ f.job = v.job => u = v

(* One request at a time, every registered version still finds its own     *)
(* document on disk and the Drive copy recorded for a version is that      *)
(* document, whatever failed or died in between.                           *)
CopiesIntactWhenSerial ==
    workers = 1 =>
      /\ \A v \in versions : OnDisk(v)
      /\ \A c \in drive : \E v \in versions :
           v.job = c.job /\ v.number = c.number /\ v.content = c.content

(* R2.5.0: a version marked submitted is never overwritten by a            *)
(* regeneration.                                                           *)
FrozenFilesIntact == \A v \in versions : Frozen(v) => OnDisk(v)

(* Every request that has begun ends: a waiter is released when the holder *)
(* commits, rolls back, dies or falls to the deadlock detector.            *)
EveryRequestEnds == \A r \in Requests : (r \in InFlight) ~> (pc[r] = "done")

Archive == INSTANCE DocumentArchive WITH
    Documents <- Requests,
    archive <- {<<v.job, v.number, v.content>> : v \in versions},
    final <- frozen,
    sent <- submitted

(* The store implements the archive it promises: a step of any request     *)
(* adds one document under an unused number, submits an archived one, or   *)
(* leaves no trace.                                                        *)
ImplementsArchive == Archive!ASpec
=============================================================================
