----------------------- MODULE DocumentVersionsProofs -----------------------
(***************************************************************************)
(* Proofs about DocumentVersions for every set of jobs and requests, every *)
(* number of worker threads and every mix of request kinds.                *)
(***************************************************************************)
EXTENDS DocumentVersions, FiniteSetTheorems, TLAPS

LEMMA ChosenType == SomeJob \in Jobs /\ SomeStamp \in Stamps
  BY NonEmptyAssumption DEF SomeJob, SomeStamp

LEMMA InitTypeOK == Init => TypeOK
  BY ChosenType, WorkersAssumption
  DEF Init, TypeOK, Clean, NoSnapshot, Snapshot, JobStates, AppStates, PCs, AllKinds

(* Closing or discarding a session leaves well-typed, empty writes.        *)
LEMMA DiscardType ==
    ASSUME TypeOK, NEW r \in Requests, Discard(r)
    PROVE  /\ wJob' \in [Requests -> [Jobs -> JobStates \union {"SAME"}]]
           /\ wApp' \in [Requests -> [Jobs -> AppStates \union {"SAME"}]]
           /\ wLatest' \in [Requests -> [Jobs -> Nat]]
           /\ wRows' \in [Requests -> SUBSET Row]
  BY DEF TypeOK, Discard, Clean

LEMMA CloseType ==
    ASSUME TypeOK, NEW r \in Requests, Close(r)
    PROVE  /\ wJob' \in [Requests -> [Jobs -> JobStates \union {"SAME"}]]
           /\ wApp' \in [Requests -> [Jobs -> AppStates \union {"SAME"}]]
           /\ wLatest' \in [Requests -> [Jobs -> Nat]]
           /\ wRows' \in [Requests -> SUBSET Row]
           /\ todo' \in [Requests -> SUBSET Jobs]
           /\ cur' \in [Requests -> Jobs]
           /\ snap' \in [Requests -> Snapshot]
           /\ stamp' \in [Requests -> Stamps]
           /\ fresh' \in [Requests -> BOOLEAN]
  <1>1. NoSnapshot \in Snapshot
    BY DEF NoSnapshot, Snapshot, JobStates, AppStates
  <1> QED
    BY <1>1, DiscardType, ChosenType DEF TypeOK, Close

LEMMA AbortType ==
    ASSUME TypeOK, NEW r \in Requests, Abort(r)
    PROVE  TypeOK'
  BY CloseType DEF TypeOK, Abort, Goto, PCs, db

LEMMA FailType ==
    ASSUME TypeOK, NEW r \in Requests, Fail(r)
    PROVE  TypeOK'
  <1>1. CASE Abort(r)
    BY <1>1, AbortType
  <1>2. CASE Goto(r, "next") /\ UNCHANGED <<db, files, drive, session, writes>>
    BY <1>2 DEF TypeOK, Goto, PCs, db, session, writes
  <1> QED
    BY <1>1, <1>2 DEF Fail

(* What a commit makes of the pending writes.                              *)
LEMMA AfterType ==
    ASSUME TypeOK, NEW r \in Requests
    PROVE  /\ JobAfter(r) \in [Jobs -> JobStates]
           /\ AppAfter(r) \in [Jobs -> AppStates]
           /\ LatestAfter(r) \in [Jobs -> Nat]
  BY DEF TypeOK, JobAfter, AppAfter, LatestAfter, HoldsApp

LEMMA DocumentType ==
    ASSUME TypeOK, NEW r \in Requests, NEW s \in Stamps
    PROVE  /\ NextNumber(r) \in Nat /\ NextNumber(r) > 0
           /\ Document(r, s) \in Row
           /\ Document(r, s).job = cur[r]
           /\ Document(r, s).number = NextNumber(r)
           /\ Document(r, s).stamp = s
           /\ Document(r, s).content = r
  BY DEF TypeOK, NextNumber, Document, Row, Snapshot

(* What a session sees of a row.                                           *)
LEMMA SeesType ==
    ASSUME TypeOK, NEW j \in Jobs, NEW x \in Snapshot
    PROVE  SeesJob(x, j) \in Snapshot /\ SeesApplication(x, j) \in Snapshot
  BY DEF TypeOK, SeesJob, SeesApplication, Snapshot

LEMMA GenerateTypeOK ==
    ASSUME TypeOK, NEW r \in Requests, Generate(r)
    PROVE  TypeOK'
  <1>1. CASE Load(r)
    <2>1. PICK j \in Jobs : /\ TakeJob(r, j)
                            /\ snap' = [snap EXCEPT ![r] = SeesJob(NoSnapshot, j)]
      BY <1>1 DEF Load
    <2>2. SeesJob(NoSnapshot, j) \in Snapshot
      BY SeesType DEF NoSnapshot, Snapshot, JobStates, AppStates
    <2> QED
      BY <1>1, <2>1, <2>2 DEF TypeOK, Load, TakeJob, Goto, PCs, db, writes
  <1>2. CASE CheckRisk(r)
    <2>1. /\ jobState' \in [Jobs -> JobStates]
          /\ appState' \in [Jobs -> AppStates]
          /\ latest' \in [Jobs -> Nat]
      BY <1>2, AfterType DEF TypeOK, CheckRisk
    <2>2. \E x \in Snapshot : snap' = [snap EXCEPT ![r] = x]
      <3>1. SeesApplication(snap[r], cur[r]) \in Snapshot
        BY SeesType DEF TypeOK
      <3>2. [jobState |-> jobState'[cur[r]], appState |-> appState'[cur[r]],
             latest |-> latest'[cur[r]]] \in Snapshot
        BY <2>1 DEF TypeOK, Snapshot
      <3> QED
        BY <1>2, <3>1, <3>2 DEF CheckRisk
    <2>3. /\ wJob' \in [Requests -> [Jobs -> JobStates \union {"SAME"}]]
          /\ wApp' \in [Requests -> [Jobs -> AppStates \union {"SAME"}]]
          /\ wLatest' \in [Requests -> [Jobs -> Nat]]
          /\ wRows' \in [Requests -> SUBSET Row]
      BY <1>2, DiscardType DEF TypeOK, CheckRisk, writes
    <2>4. snap' \in [Requests -> Snapshot]
      BY <2>2 DEF TypeOK
    <2>5. /\ pc' \in [Requests -> PCs]
          /\ UNCHANGED <<submitted, versions, frozen, files, drive, workers, kind, todo,
                         cur, stamp, fresh>>
      BY <1>2 DEF TypeOK, CheckRisk, Goto, PCs
    <2> QED
      BY <2>1, <2>3, <2>4, <2>5 DEF TypeOK
  <1>3. CASE FlushJob(r)
    <2>1. CASE Abort(r)
      BY <2>1, AbortType
    <2>2. CASE ~Abort(r)
      <3>1. PICK v \in JobStates \union {"SAME"}, w \in AppStates \union {"SAME"} :
              /\ wJob' = [wJob EXCEPT ![r][cur[r]] = v]
              /\ wApp' = [wApp EXCEPT ![r][cur[r]] = w]
        BY <1>3, <2>2 DEF TypeOK, FlushJob, JobStates, AppStates
      <3>2. /\ wJob' \in [Requests -> [Jobs -> JobStates \union {"SAME"}]]
            /\ wApp' \in [Requests -> [Jobs -> AppStates \union {"SAME"}]]
        BY <3>1 DEF TypeOK
      <3> QED
        BY <1>3, <2>2, <3>2 DEF TypeOK, FlushJob, Goto, PCs, db, session
    <2> QED
      BY <2>1, <2>2
  <1>4. CASE Allocate(r)
    BY <1>4, DocumentType DEF TypeOK, Allocate, NextNumber, Snapshot, Goto, PCs, db, session
  <1>5. CASE WriteFile(r)
    <2>1. PICK s \in Stamps :
            /\ files' = {f \in files : ~SamePath(f, Document(r, s))} \union {Document(r, s)}
            /\ stamp' = [stamp EXCEPT ![r] = s]
      BY <1>5 DEF WriteFile
    <2>2. files' \subseteq Row
      BY <2>1, DocumentType DEF TypeOK
    <2> QED
      BY <1>5, <2>1, <2>2 DEF TypeOK, WriteFile, Goto, PCs, db, writes
  <1>6. CASE Register(r)
    <2>1. CASE Fail(r)
      BY <2>1, FailType
    <2>2. CASE Abort(r)
      BY <2>2, AbortType
    <2>3. CASE ~Fail(r) /\ ~Abort(r)
      <3>1. Document(r, stamp[r]) \in Row
        BY DocumentType DEF TypeOK
      <3>2. wRows' = [wRows EXCEPT ![r] = @ \union {Document(r, stamp[r])}]
        BY <1>6, <2>3 DEF Register
      <3>3. wRows' \in [Requests -> SUBSET Row]
        BY <3>1, <3>2 DEF TypeOK
      <3> QED
        BY <1>6, <2>3, <3>3 DEF TypeOK, Register, Goto, PCs, db, session
    <2> QED
      BY <2>1, <2>2, <2>3
  <1>7. CASE Commit(r)
    <2>1. /\ jobState' \in [Jobs -> JobStates]
          /\ appState' \in [Jobs -> AppStates]
          /\ latest' \in [Jobs -> Nat]
      BY <1>7, AfterType DEF TypeOK, Commit, JobStates, AppStates
    <2>2. versions' \subseteq Row
      BY <1>7 DEF TypeOK, Commit
    <2> QED
      BY <1>7, <2>1, <2>2, DiscardType DEF TypeOK, Commit, Goto, PCs, session
  <1>8. CASE UploadToDrive(r)
    <2>1. drive' \subseteq Copy
      BY <1>8 DEF TypeOK, UploadToDrive, Row, Copy
    <2> QED
      BY <1>8, <2>1 DEF TypeOK, UploadToDrive, Goto, PCs, db, session, writes
  <1>9. CASE Finish(r)
    BY <1>9, AbortType DEF Finish
  <1> QED
    BY <1>1, <1>2, <1>3, <1>4, <1>5, <1>6, <1>7, <1>8, <1>9 DEF Generate

LEMMA MarkSubmittedTypeOK ==
    ASSUME TypeOK, NEW r \in Requests, MarkSubmitted(r)
    PROVE  TypeOK'
  <1>1. CASE PickApplication(r)
    <2>1. PICK j \in Jobs : /\ TakeJob(r, j)
                            /\ snap' = [snap EXCEPT ![r] = SeesApplication(snap[r], j)]
      BY <1>1 DEF PickApplication
    <2>2. SeesApplication(snap[r], j) \in Snapshot
      BY SeesType DEF TypeOK
    <2> QED
      BY <1>1, <2>1, <2>2 DEF TypeOK, PickApplication, TakeJob, Goto, PCs, db, writes
  <1>2. CASE ReadJob(r)
    <2>1. SeesJob(snap[r], cur[r]) \in Snapshot
      BY SeesType DEF TypeOK
    <2> QED
      BY <1>2, <2>1 DEF TypeOK, ReadJob, Goto, PCs, db, writes
  <1>3. CASE SelectVersion(r)
    <2>1. CASE Abort(r)
      BY <2>1, AbortType
    <2>2. CASE ~Abort(r)
      BY <1>3, <2>2 DEF TypeOK, SelectVersion, Goto, PCs, db, writes
    <2> QED
      BY <2>1, <2>2
  <1>4. CASE LockSubmitted(r)
    BY <1>4 DEF TypeOK, LockSubmitted, JobStates, Goto, PCs, db, session
  <1>5. CASE CommitSubmitted(r)
    <2>1. /\ jobState' \in [Jobs -> JobStates]
          /\ appState' \in [Jobs -> AppStates]
          /\ submitted' \in [Jobs -> Nat]
          /\ frozen' \subseteq Jobs \X Nat
      BY <1>5 DEF TypeOK, CommitSubmitted, PointsTo, Freezes, Snapshot, JobStates, AppStates
    <2> QED
      BY <1>5, <2>1, CloseType DEF TypeOK, CommitSubmitted, Goto, PCs
  <1> QED
    BY <1>1, <1>2, <1>3, <1>4, <1>5 DEF MarkSubmitted

LEMMA NextTypeOK == TypeOK /\ [Next]_vars => TypeOK'
  <1> SUFFICES ASSUME TypeOK, [Next]_vars PROVE TypeOK'
    OBVIOUS
  <1>1. ASSUME NEW r \in Requests, Begin(r) PROVE TypeOK'
    BY <1>1, KindsAssumption DEF TypeOK, Begin, Goto, PCs, db, writes
  <1>2. ASSUME NEW r \in Requests, Serve(r) PROVE TypeOK'
    BY <1>2, GenerateTypeOK, MarkSubmittedTypeOK, AbortType DEF Serve, DeadlockVictim
  <1>6. ASSUME NEW r \in Requests, Refuse(r) \/ CheckFails(r) PROVE TypeOK'
    BY <1>6, FailType DEF Refuse, CheckFails
  <1>3. ASSUME NEW j \in Jobs, JobMovesOn(j) PROVE TypeOK'
    BY <1>3 DEF TypeOK, JobMovesOn, JobStates, session, writes
  <1>4. CASE Crash
    BY <1>4, ChosenType
    DEF TypeOK, Crash, Clean, NoSnapshot, Snapshot, JobStates, AppStates, PCs, db
  <1>5. CASE UNCHANGED vars
    BY <1>5 DEF TypeOK, vars, db, session, writes
  <1> QED
    BY <1>1, <1>2, <1>3, <1>4, <1>5, <1>6 DEF Next

(* Every variable keeps its type, whatever requests are served.            *)
THEOREM TypeCorrect == Spec => []TypeOK
  BY InitTypeOK, NextTypeOK, PTL DEF Spec

-----------------------------------------------------------------------------
(* The inductive invariant behind the safety properties.                   *)

(* From the allocation of a number to the end of the transaction a request *)
(* holds the row of its application, and no two requests hold one row.     *)
LocksHeld ==
    /\ \A r \in Requests :
         pc[r] \in {"allocated", "written", "registered"} => HoldsApp(r, cur[r])
    /\ \A r, q \in Requests, j \in Jobs : HoldsApp(r, j) /\ HoldsApp(q, j) => r = q

(* Only a request about to commit has a flushed version row, one row, and  *)
(* its number is still unused.                                             *)
PendingRow ==
    \A r \in Requests :
      /\ pc[r] # "registered" => wRows[r] = {}
      /\ pc[r] = "registered" => /\ wRows[r] = {Document(r, stamp[r])}
                                 /\ ~Taken(cur[r], NextNumber(r))

(* The version a request is about to submit is registered; if it was       *)
(* immutable when selected, it still is.                                   *)
PickedVersion ==
    \A r \in Requests :
      pc[r] \in {"selected", "locked"} =>
        /\ Taken(cur[r], snap[r].latest)
        /\ ~fresh[r] => <<cur[r], snap[r].latest>> \in frozen

(* Immutable versions are registered, under a number that is not the NULL  *)
(* of submitted, and their job has a submitted version.                    *)
FrozenVersions ==
    /\ \A j \in Jobs, n \in Nat : <<j, n>> \in frozen => Taken(j, n) /\ submitted[j] # 0
    /\ \A v \in versions : v.number # 0

(* A flushed SUBMITTED is that of a mark_submitted about to commit.        *)
SubmitterWrites ==
    \A r \in Requests, j \in Jobs : wJob[r][j] = "SUBMITTED" => pc[r] = "locked"

IInv ==
    /\ TypeOK
    /\ LocksHeld
    /\ PendingRow
    /\ PickedVersion
    /\ FrozenVersions
    /\ SubmitterWrites
    /\ OneRowPerNumber
    /\ SubmittedIsFrozen

Safety ==
    /\ LocksHeld
    /\ PendingRow
    /\ PickedVersion
    /\ FrozenVersions
    /\ SubmitterWrites
    /\ OneRowPerNumber
    /\ SubmittedIsFrozen

(* A step of r leaves the sessions of the other requests alone.            *)
OthersUntouched(r) ==
    \A q \in Requests \ {r} :
      /\ pc'[q] = pc[q] /\ cur'[q] = cur[q] /\ snap'[q] = snap[q]
      /\ stamp'[q] = stamp[q] /\ fresh'[q] = fresh[q]
      /\ wJob'[q] = wJob[q] /\ wLatest'[q] = wLatest[q] /\ wRows'[q] = wRows[q]

(* A calm step of r ends with no number allocated and no version selected, *)
(* and registers, freezes and submits nothing.                             *)
Calm(r) ==
    /\ OthersUntouched(r)
    /\ pc'[r] \notin {"allocated", "written", "registered", "selected", "locked"}
    /\ wRows'[r] = {}
    /\ \A j \in Jobs : /\ wLatest'[r][j] # 0 => wLatest[r][j] # 0
                       /\ wJob'[r][j] # "SUBMITTED"
                       /\ jobState'[j] = "SUBMITTED" => jobState[j] = "SUBMITTED"
    /\ UNCHANGED <<versions, frozen, submitted>>

(* A calm step keeps the invariant.                                        *)
LEMMA CalmIInv ==
    ASSUME IInv, NEW r \in Requests, Calm(r)
    PROVE  Safety'
  <1>1. LocksHeld'
    BY DEF IInv, LocksHeld, Calm, OthersUntouched, HoldsApp
  <1>2. PendingRow'
    <2> SUFFICES ASSUME NEW q \in Requests
                 PROVE  (/\ pc[q] # "registered" => wRows[q] = {}
                         /\ pc[q] = "registered" => /\ wRows[q] = {Document(q, stamp[q])}
                                                    /\ ~Taken(cur[q], NextNumber(q)))'
      BY DEF PendingRow
    <2>1. CASE q = r
      BY <2>1 DEF Calm
    <2>2. CASE q # r
      BY <2>2 DEF IInv, PendingRow, Calm, OthersUntouched, Document, NextNumber, Taken
    <2> QED
      BY <2>1, <2>2
  <1>3. PickedVersion'
    BY DEF IInv, PickedVersion, Calm, OthersUntouched, Taken
  <1>4. FrozenVersions'
    BY DEF IInv, FrozenVersions, Calm, Taken
  <1>5. SubmitterWrites'
    BY DEF IInv, SubmitterWrites, Calm, OthersUntouched
  <1>6. OneRowPerNumber'
    BY DEF IInv, OneRowPerNumber, Calm
  <1>7. SubmittedIsFrozen'
    BY DEF IInv, SubmittedIsFrozen, Calm, Taken
  <1> QED
    BY <1>1, <1>2, <1>3, <1>4, <1>5, <1>6, <1>7 DEF Safety

LEMMA AbortCalm ==
    ASSUME TypeOK, NEW r \in Requests, Abort(r)
    PROVE  Calm(r)
  BY DEF TypeOK, Abort, Close, Discard, Goto, Clean, Calm, OthersUntouched, db

LEMMA FailCalm ==
    ASSUME IInv, NEW r \in Requests, Fail(r), pc[r] \notin {"registered", "locked"}
    PROVE  Calm(r)
  <1>1. CASE Abort(r)
    BY <1>1, AbortCalm DEF IInv
  <1>2. CASE Goto(r, "next") /\ UNCHANGED <<db, files, drive, session, writes>>
    BY <1>2 DEF IInv, TypeOK, PendingRow, SubmitterWrites, Goto, Calm, OthersUntouched,
                db, session, writes
  <1> QED
    BY <1>1, <1>2 DEF Fail

(* The calm steps.                                                         *)
LEMMA BeginCalm ==
    ASSUME IInv, NEW r \in Requests, Begin(r)
    PROVE  Calm(r)
  BY DEF IInv, TypeOK, PendingRow, SubmitterWrites, Begin, Goto, Calm, OthersUntouched,
         db, writes

LEMMA LoadCalm ==
    ASSUME IInv, NEW r \in Requests, Load(r)
    PROVE  Calm(r)
  BY DEF IInv, TypeOK, PendingRow, SubmitterWrites, Load, TakeJob, Goto, Calm,
         OthersUntouched, db, writes

LEMMA CheckRiskCalm ==
    ASSUME IInv, NEW r \in Requests, CheckRisk(r)
    PROVE  Calm(r)
  <1>1. \A j \in Jobs : wJob[r][j] # "SUBMITTED"
    BY DEF IInv, SubmitterWrites, CheckRisk
  <1>2. wRows[r] = {}
    BY DEF IInv, PendingRow, CheckRisk
  <1>3. /\ pc' = [pc EXCEPT ![r] = "checked"]
        /\ \E x : snap' = [snap EXCEPT ![r] = x]
        /\ UNCHANGED <<versions, frozen, submitted, cur, stamp, fresh>>
    BY DEF CheckRisk, Goto
  <1>4. CASE UNCHANGED <<jobState, appState, latest, writes>>
    BY <1>1, <1>2, <1>3, <1>4 DEF IInv, TypeOK, Calm, OthersUntouched, writes
  <1>5. CASE jobState' = JobAfter(r) /\ Discard(r)
    <2>1. \A j \in Jobs : jobState'[j] = "SUBMITTED" => jobState[j] = "SUBMITTED"
      BY <1>1, <1>5 DEF JobAfter
    <2> QED
      BY <2>1, <1>3, <1>5 DEF IInv, TypeOK, Discard, Clean, Calm, OthersUntouched
  <1> QED
    BY <1>4, <1>5 DEF CheckRisk

LEMMA FlushJobCalm ==
    ASSUME IInv, NEW r \in Requests, FlushJob(r)
    PROVE  Calm(r)
  <1>1. CASE Abort(r)
    BY <1>1, AbortCalm DEF IInv
  <1>2. CASE ~Abort(r)
    <2>1. /\ pc' = [pc EXCEPT ![r] = "flushed"]
          /\ \/ wJob' = [wJob EXCEPT ![r][cur[r]] = "PACKET_GENERATING"]
             \/ wJob' = [wJob EXCEPT ![r][cur[r]] = wJob[r][cur[r]]]
          /\ UNCHANGED <<db, session, wLatest, wRows>>
      BY <1>2 DEF FlushJob, Goto
    <2>2. pc[r] = "checked"
      BY DEF FlushJob
    <2>3. \A j \in Jobs : wJob'[r][j] # "SUBMITTED"
      <3>1. /\ \A j \in Jobs : wJob[r][j] # "SUBMITTED"
            /\ wJob \in [Requests -> [Jobs -> JobStates \union {"SAME"}]]
            /\ cur[r] \in Jobs
        BY <2>2 DEF IInv, TypeOK, SubmitterWrites
      <3>2. CASE wJob' = [wJob EXCEPT ![r][cur[r]] = "PACKET_GENERATING"]
        BY <3>1, <3>2
      <3>3. CASE wJob' = [wJob EXCEPT ![r][cur[r]] = wJob[r][cur[r]]]
        BY <3>1, <3>3
      <3> QED
        BY <2>1, <3>2, <3>3
    <2> QED
      BY <2>1, <2>2, <2>3
      DEF IInv, TypeOK, PendingRow, Calm, OthersUntouched, db, session
  <1> QED
    BY <1>1, <1>2

LEMMA UploadToDriveCalm ==
    ASSUME IInv, NEW r \in Requests, UploadToDrive(r)
    PROVE  Calm(r)
  BY DEF IInv, TypeOK, PendingRow, SubmitterWrites, UploadToDrive, Goto, Calm,
         OthersUntouched, db, session, writes

LEMMA ReadCalm ==
    ASSUME IInv, NEW r \in Requests, PickApplication(r) \/ ReadJob(r)
    PROVE  Calm(r)
  <1>1. CASE PickApplication(r)
    BY <1>1 DEF IInv, TypeOK, PendingRow, SubmitterWrites, PickApplication, TakeJob, Goto,
                Calm, OthersUntouched, db, writes
  <1>2. CASE ReadJob(r)
    BY <1>2 DEF IInv, TypeOK, PendingRow, SubmitterWrites, ReadJob, Goto, Calm,
                OthersUntouched, db, writes
  <1> QED
    BY <1>1, <1>2

LEMMA CalmSteps ==
    ASSUME IInv, NEW r \in Requests,
           \/ Begin(r) \/ Load(r) \/ CheckRisk(r) \/ Refuse(r) \/ FlushJob(r)
           \/ CheckFails(r) \/ UploadToDrive(r) \/ Finish(r) \/ PickApplication(r)
           \/ ReadJob(r) \/ DeadlockVictim(r)
    PROVE  Safety'
  <1>1. CASE Refuse(r) \/ CheckFails(r)
    BY <1>1, FailCalm, CalmIInv DEF Refuse, CheckFails
  <1>2. CASE Finish(r) \/ DeadlockVictim(r)
    BY <1>2, AbortCalm, CalmIInv DEF IInv, Finish, DeadlockVictim
  <1>3. CASE Begin(r) \/ Load(r) \/ CheckRisk(r) \/ FlushJob(r)
    BY <1>3, BeginCalm, LoadCalm, CheckRiskCalm, FlushJobCalm, CalmIInv
  <1>4. CASE UploadToDrive(r) \/ PickApplication(r) \/ ReadJob(r)
    BY <1>4, UploadToDriveCalm, ReadCalm, CalmIInv
  <1> QED
    BY <1>1, <1>2, <1>3, <1>4

(* An allocated number comes with the lock of the application's row.       *)
LEMMA AllocateSafe ==
    ASSUME IInv, NEW r \in Requests, Allocate(r)
    PROVE  Safety'
  <1> DEFINE j == cur[r]
  <1>1. /\ pc[r] = "flushed" /\ AppFree(r, j) /\ j \in Jobs
        /\ pc' = [pc EXCEPT ![r] = "allocated"]
        /\ wLatest' = [wLatest EXCEPT ![r][j] = NextNumber(r)]
        /\ UNCHANGED <<db, session, wJob, wApp, wRows>>
        /\ NextNumber(r) \in Nat /\ NextNumber(r) > 0
        /\ wLatest \in [Requests -> [Jobs -> Nat]]
        /\ pc \in [Requests -> PCs]
    BY DocumentType DEF IInv, TypeOK, Allocate, Goto
  <1>2. /\ wLatest'[r][j] > 0
        /\ \A i \in Jobs \ {j} : wLatest'[r][i] = wLatest[r][i]
        /\ \A q \in Requests \ {r} : wLatest'[q] = wLatest[q]
        /\ pc'[r] = "allocated"
        /\ \A q \in Requests \ {r} : pc'[q] = pc[q]
    BY <1>1
  <1>3. LocksHeld'
    <2>1. \A q \in Requests :
            pc'[q] \in {"allocated", "written", "registered"} => HoldsApp(q, cur[q])'
      BY <1>1, <1>2 DEF IInv, LocksHeld, HoldsApp, session
    <2>2. \A p, q \in Requests, i \in Jobs : HoldsApp(p, i)' /\ HoldsApp(q, i)' => p = q
      BY <1>1, <1>2 DEF IInv, LocksHeld, HoldsApp, AppFree
    <2> QED
      BY <2>1, <2>2 DEF LocksHeld
  <1>4. PendingRow'
    BY <1>1, <1>2 DEF IInv, PendingRow, Document, NextNumber, Taken, session, db
  <1>5. PickedVersion'
    BY <1>1, <1>2 DEF IInv, PickedVersion, Taken, session, db
  <1>6. SubmitterWrites'
    BY <1>1, <1>2 DEF IInv, SubmitterWrites
  <1>7. FrozenVersions' /\ OneRowPerNumber' /\ SubmittedIsFrozen'
    BY <1>1 DEF IInv, FrozenVersions, OneRowPerNumber, SubmittedIsFrozen, Taken, db
  <1> QED
    BY <1>3, <1>4, <1>5, <1>6, <1>7 DEF Safety

LEMMA WriteFileSafe ==
    ASSUME IInv, NEW r \in Requests, WriteFile(r)
    PROVE  Safety'
  <1>1. /\ pc[r] = "allocated"
        /\ pc' = [pc EXCEPT ![r] = "written"]
        /\ \E s : stamp' = [stamp EXCEPT ![r] = s]
        /\ UNCHANGED <<db, cur, snap, fresh, writes>>
        /\ pc \in [Requests -> PCs] /\ stamp \in [Requests -> Stamps]
    BY DEF IInv, TypeOK, WriteFile, Goto
  <1>2. LocksHeld'
    BY <1>1 DEF IInv, LocksHeld, HoldsApp, writes
  <1>3. PendingRow'
    BY <1>1 DEF IInv, PendingRow, Document, NextNumber, Taken, writes, db
  <1>4. PickedVersion'
    BY <1>1 DEF IInv, PickedVersion, Taken, db
  <1>5. SubmitterWrites'
    BY <1>1 DEF IInv, SubmitterWrites, writes
  <1>6. FrozenVersions' /\ OneRowPerNumber' /\ SubmittedIsFrozen'
    BY <1>1 DEF IInv, FrozenVersions, OneRowPerNumber, SubmittedIsFrozen, Taken, db
  <1> QED
    BY <1>2, <1>3, <1>4, <1>5, <1>6 DEF Safety

(* uq_app_doc_version has just found the number unused.                    *)
LEMMA RegisterSafe ==
    ASSUME IInv, NEW r \in Requests, Register(r)
    PROVE  Safety'
  <1>1. CASE Fail(r)
    BY <1>1, FailCalm, CalmIInv DEF Register
  <1>2. CASE Abort(r)
    BY <1>2, AbortCalm, CalmIInv DEF IInv
  <1>3. CASE ~Fail(r) /\ ~Abort(r)
    <2>1. /\ pc[r] = "written"
          /\ ~UniqueViolation(Document(r, stamp[r]))
          /\ wRows' = [wRows EXCEPT ![r] = @ \union {Document(r, stamp[r])}]
          /\ pc' = [pc EXCEPT ![r] = "registered"]
          /\ UNCHANGED <<db, session, wJob, wApp, wLatest>>
          /\ pc \in [Requests -> PCs] /\ wRows \in [Requests -> SUBSET Row]
          /\ stamp[r] \in Stamps
      BY <1>3 DEF IInv, TypeOK, Register, Goto
    <2>2. ~Taken(cur[r], NextNumber(r))
      BY <2>1, DocumentType DEF IInv, UniqueViolation
    <2>3. LocksHeld'
      BY <2>1 DEF IInv, LocksHeld, HoldsApp, session
    <2>4. PendingRow'
      <3> SUFFICES ASSUME NEW q \in Requests
                   PROVE  (/\ pc[q] # "registered" => wRows[q] = {}
                           /\ pc[q] = "registered" => /\ wRows[q] = {Document(q, stamp[q])}
                                                      /\ ~Taken(cur[q], NextNumber(q)))'
        BY DEF PendingRow
      <3>1. UNCHANGED <<Document(q, stamp[q]), Taken(cur[q], NextNumber(q))>>
        BY <2>1 DEF Document, NextNumber, Taken, session, db
      <3>2. CASE q = r
        BY <3>1, <3>2, <2>1, <2>2 DEF IInv, PendingRow
      <3>3. CASE q # r
        BY <3>1, <3>3, <2>1 DEF IInv, PendingRow
      <3> QED
        BY <3>2, <3>3
    <2>5. PickedVersion'
      BY <2>1 DEF IInv, PickedVersion, Taken, session, db
    <2>6. SubmitterWrites'
      BY <2>1 DEF IInv, SubmitterWrites
    <2>7. FrozenVersions' /\ OneRowPerNumber' /\ SubmittedIsFrozen'
      BY <2>1 DEF IInv, FrozenVersions, OneRowPerNumber, SubmittedIsFrozen, Taken, db
    <2> QED
      BY <2>3, <2>4, <2>5, <2>6, <2>7 DEF Safety
  <1> QED
    BY <1>1, <1>2, <1>3

(* The row lock keeps every other request from having allocated the number *)
(* that is registered now.                                                 *)
LEMMA CommitSafe ==
    ASSUME IInv, NEW r \in Requests, Commit(r)
    PROVE  Safety'
  <1> DEFINE doc == Document(r, stamp[r])
  <1>1. /\ pc[r] = "registered" /\ cur[r] \in Jobs
        /\ pc' = [pc EXCEPT ![r] = "committed"]
        /\ versions' = versions \union {doc}
        /\ jobState' = [JobAfter(r) EXCEPT ![cur[r]] = "PACKET_READY"]
        /\ Discard(r)
        /\ UNCHANGED <<submitted, frozen, session>>
        /\ pc \in [Requests -> PCs]
    BY DEF IInv, TypeOK, PendingRow, Commit, Goto
  <1>2. /\ doc.job = cur[r] /\ doc.number = NextNumber(r)
        /\ NextNumber(r) # 0
        /\ ~Taken(cur[r], NextNumber(r))
    BY <1>1, DocumentType DEF IInv, TypeOK, PendingRow
  <1>3. /\ wJob'[r] = Clean("SAME") /\ wLatest'[r] = Clean(0) /\ wRows'[r] = {}
        /\ pc'[r] = "committed"
        /\ \A q \in Requests \ {r} : /\ wJob'[q] = wJob[q] /\ wLatest'[q] = wLatest[q]
                                     /\ wRows'[q] = wRows[q] /\ pc'[q] = pc[q]
    BY <1>1 DEF IInv, TypeOK, Discard
  <1>4. \A j, n : Taken(j, n) => Taken(j, n)'
    BY <1>1 DEF Taken
  <1>5. LocksHeld'
    BY <1>1, <1>3 DEF IInv, LocksHeld, HoldsApp, Clean, session
  <1>6. PendingRow'
    <2> SUFFICES ASSUME NEW q \in Requests \ {r}
                 PROVE  (/\ pc[q] # "registered" => wRows[q] = {}
                         /\ pc[q] = "registered" => /\ wRows[q] = {Document(q, stamp[q])}
                                                    /\ ~Taken(cur[q], NextNumber(q)))'
      BY <1>3 DEF PendingRow
    <2>1. UNCHANGED <<Document(q, stamp[q]), cur[q], NextNumber(q)>>
      BY <1>1 DEF Document, NextNumber, session
    <2>2. pc[q] = "registered" => cur[q] # cur[r]
      BY <1>1 DEF IInv, LocksHeld
    <2>3. pc[q] = "registered" => ~Taken(cur[q], NextNumber(q))'
      BY <2>1, <2>2, <1>1, <1>2 DEF IInv, PendingRow, Taken
    <2> QED
      BY <2>1, <2>3, <1>3 DEF IInv, PendingRow
  <1>7. PickedVersion'
    BY <1>1, <1>3, <1>4 DEF IInv, PickedVersion, session
  <1>8. FrozenVersions'
    BY <1>1, <1>2, <1>4 DEF IInv, FrozenVersions
  <1>9. SubmitterWrites'
    BY <1>3 DEF IInv, SubmitterWrites, Clean
  <1>10. OneRowPerNumber'
    BY <1>1, <1>2 DEF IInv, OneRowPerNumber, Taken
  <1>11. SubmittedIsFrozen'
    <2>1. \A j \in Jobs : jobState'[j] = "SUBMITTED" => jobState[j] = "SUBMITTED"
      BY <1>1 DEF IInv, SubmitterWrites, JobAfter
    <2> QED
      BY <1>1, <1>4, <2>1 DEF IInv, SubmittedIsFrozen
  <1> QED
    BY <1>5, <1>6, <1>7, <1>8, <1>9, <1>10, <1>11 DEF Safety

(* The selected version is registered.                                     *)
LEMMA SelectVersionSafe ==
    ASSUME IInv, NEW r \in Requests, SelectVersion(r)
    PROVE  Safety'
  <1>1. CASE Abort(r)
    BY <1>1, AbortCalm, CalmIInv DEF IInv
  <1>2. CASE ~Abort(r)
    <2>1. /\ pc[r] = "viewed"
          /\ Taken(cur[r], snap[r].latest)
          /\ fresh' = [fresh EXCEPT ![r] = <<cur[r], snap[r].latest>> \notin frozen]
          /\ pc' = [pc EXCEPT ![r] = "selected"]
          /\ UNCHANGED <<db, files, drive, workers, kind, todo, cur, snap, stamp, writes>>
          /\ pc \in [Requests -> PCs] /\ fresh \in [Requests -> BOOLEAN]
      BY <1>2 DEF IInv, TypeOK, SelectVersion, Goto
    <2>2. LocksHeld'
      BY <2>1 DEF IInv, LocksHeld, HoldsApp, writes
    <2>3. PendingRow'
      BY <2>1 DEF IInv, PendingRow, Document, NextNumber, Taken, writes, db
    <2>4. PickedVersion'
      BY <2>1 DEF IInv, PickedVersion, Taken, db
    <2>5. SubmitterWrites'
      BY <2>1 DEF IInv, SubmitterWrites, writes
    <2>6. FrozenVersions' /\ OneRowPerNumber' /\ SubmittedIsFrozen'
      BY <2>1 DEF IInv, FrozenVersions, OneRowPerNumber, SubmittedIsFrozen, Taken, db
    <2> QED
      BY <2>2, <2>3, <2>4, <2>5, <2>6 DEF Safety
  <1> QED
    BY <1>1, <1>2

LEMMA LockSubmittedSafe ==
    ASSUME IInv, NEW r \in Requests, LockSubmitted(r)
    PROVE  Safety'
  <1>1. /\ pc[r] = "selected"
        /\ pc' = [pc EXCEPT ![r] = "locked"]
        /\ \E v : wJob' = [wJob EXCEPT ![r][cur[r]] = v]
        /\ UNCHANGED <<db, files, drive, session, wApp, wLatest, wRows>>
        /\ pc \in [Requests -> PCs]
        /\ wJob \in [Requests -> [Jobs -> JobStates \union {"SAME"}]]
    BY DEF IInv, TypeOK, LockSubmitted, Goto
  <1>2. \A q \in Requests \ {r} : wJob'[q] = wJob[q] /\ pc'[q] = pc[q]
    BY <1>1
  <1>3. LocksHeld'
    BY <1>1 DEF IInv, LocksHeld, HoldsApp, session
  <1>4. PendingRow'
    BY <1>1 DEF IInv, PendingRow, Document, NextNumber, Taken, session, db
  <1>5. PickedVersion'
    BY <1>1 DEF IInv, PickedVersion, Taken, session, db
  <1>6. SubmitterWrites'
    BY <1>1, <1>2 DEF IInv, SubmitterWrites
  <1>7. FrozenVersions' /\ OneRowPerNumber' /\ SubmittedIsFrozen'
    BY <1>1 DEF IInv, FrozenVersions, OneRowPerNumber, SubmittedIsFrozen, Taken, db
  <1> QED
    BY <1>3, <1>4, <1>5, <1>6, <1>7 DEF Safety

(* Freezing the selected version and pointing to it, or, when it was       *)
(* immutable already, leaving the pointer that it came with.               *)
LEMMA CommitSubmittedSafe ==
    ASSUME IInv, NEW r \in Requests, CommitSubmitted(r)
    PROVE  Safety'
  <1> DEFINE j == cur[r]
             n == snap[r].latest
  <1>1. /\ pc[r] = "locked" /\ j \in Jobs /\ n \in Nat
        /\ jobState' = [jobState EXCEPT ![j] =
                          IF HoldsJob(r, j) THEN "SUBMITTED" ELSE @]
        /\ submitted' = [submitted EXCEPT ![j] = IF fresh[r] THEN n ELSE @]
        /\ frozen' = frozen \union (IF fresh[r] THEN {<<j, n>>} ELSE {})
        /\ UNCHANGED versions
        /\ submitted \in [Jobs -> Nat] /\ jobState \in [Jobs -> JobStates]
    BY DEF IInv, TypeOK, CommitSubmitted, PointsTo, Freezes, Snapshot
  <1>2. /\ pc' = [pc EXCEPT ![r] = "done"] /\ Close(r)
    BY DEF CommitSubmitted, Goto
  <1>3. OthersUntouched(r)
    BY <1>2 DEF IInv, TypeOK, OthersUntouched, Close, Discard
  <1>4. /\ pc'[r] = "done" /\ wJob'[r] = Clean("SAME") /\ wLatest'[r] = Clean(0)
        /\ wRows'[r] = {}
    BY <1>2 DEF IInv, TypeOK, Close, Discard
  <1>5. /\ Taken(j, n) /\ n # 0 /\ (~fresh[r] => <<j, n>> \in frozen)
        /\ submitted'[j] # 0
    <2>1. Taken(j, n) /\ (~fresh[r] => <<j, n>> \in frozen)
      BY <1>1 DEF IInv, PickedVersion
    <2>2. n # 0
      BY <2>1 DEF IInv, FrozenVersions, Taken
    <2>3. ~fresh[r] => submitted[j] # 0
      BY <1>1, <2>1 DEF IInv, FrozenVersions
    <2> QED
      BY <1>1, <2>1, <2>2, <2>3
  <1>6. LocksHeld'
    BY <1>3, <1>4 DEF IInv, LocksHeld, OthersUntouched, HoldsApp, Clean
  <1>7. PendingRow'
    BY <1>1, <1>3, <1>4
    DEF IInv, PendingRow, OthersUntouched, Document, NextNumber, Taken
  <1>8. PickedVersion'
    BY <1>1, <1>3, <1>4 DEF IInv, PickedVersion, OthersUntouched, Taken
  <1>9. FrozenVersions'
    BY <1>1, <1>5 DEF IInv, FrozenVersions, Taken
  <1>10. SubmitterWrites'
    BY <1>3, <1>4 DEF IInv, SubmitterWrites, OthersUntouched, Clean
  <1>11. OneRowPerNumber'
    BY <1>1 DEF IInv, OneRowPerNumber
  <1>12. SubmittedIsFrozen'
    <2> SUFFICES ASSUME NEW i \in Jobs
                 PROVE  (/\ submitted[i] # 0 => <<i, submitted[i]>> \in frozen
                                                /\ Taken(i, submitted[i])
                         /\ jobState[i] = "SUBMITTED" => submitted[i] # 0)'
      BY DEF SubmittedIsFrozen
    <2>1. CASE i = j
      BY <1>1, <1>5, <2>1 DEF IInv, SubmittedIsFrozen, Taken
    <2>2. CASE i # j
      BY <1>1, <2>2 DEF IInv, SubmittedIsFrozen, Taken
    <2> QED
      BY <2>1, <2>2
  <1> QED
    BY <1>6, <1>7, <1>8, <1>9, <1>10, <1>11, <1>12 DEF Safety

LEMMA EnvironmentSafe ==
    ASSUME IInv, (\E j \in Jobs : JobMovesOn(j)) \/ Crash \/ UNCHANGED vars
    PROVE  Safety'
  <1>1. CASE \E j \in Jobs : JobMovesOn(j)
    <2>1. /\ \A j \in Jobs : jobState'[j] = "SUBMITTED" => jobState[j] = "SUBMITTED"
          /\ UNCHANGED <<submitted, versions, frozen, pc, session, writes>>
      BY <1>1 DEF IInv, TypeOK, JobMovesOn
    <2> QED
      BY <2>1 DEF IInv, Safety, LocksHeld, HoldsApp, PendingRow, Document, NextNumber, Taken,
             PickedVersion, FrozenVersions, SubmitterWrites, OneRowPerNumber,
             SubmittedIsFrozen, session, writes
  <1>2. CASE Crash
    <2>1. /\ \A r \in Requests : /\ pc'[r] \in {"idle", "done"}
                                 /\ wJob'[r] = Clean("SAME") /\ wLatest'[r] = Clean(0)
                                 /\ wRows'[r] = {}
          /\ UNCHANGED <<jobState, submitted, versions, frozen>>
      BY <1>2 DEF Crash, InFlight, db
    <2> QED
      BY <2>1 DEF IInv, Safety, LocksHeld, HoldsApp, PendingRow, Taken, Clean,
             PickedVersion, FrozenVersions, SubmitterWrites, OneRowPerNumber,
             SubmittedIsFrozen
  <1>3. CASE UNCHANGED vars
    BY <1>3 DEF IInv, Safety, LocksHeld, HoldsApp, PendingRow, Document, NextNumber, Taken,
           PickedVersion, FrozenVersions, SubmitterWrites, OneRowPerNumber,
           SubmittedIsFrozen, vars, db, session, writes
  <1> QED
    BY <1>1, <1>2, <1>3

LEMMA InitIInv == Init => IInv
  <1> SUFFICES ASSUME Init PROVE IInv
    OBVIOUS
  <1>1. TypeOK
    BY InitTypeOK
  <1>2. LocksHeld /\ PendingRow /\ PickedVersion /\ SubmitterWrites
    BY DEF Init, LocksHeld, HoldsApp, PendingRow, PickedVersion, SubmitterWrites, Clean
  <1>3. FrozenVersions /\ OneRowPerNumber /\ SubmittedIsFrozen
    BY DEF Init, FrozenVersions, OneRowPerNumber, SubmittedIsFrozen, Clean
  <1> QED
    BY <1>1, <1>2, <1>3 DEF IInv

LEMMA NextIInv == IInv /\ [Next]_vars => IInv'
  <1> SUFFICES ASSUME IInv, [Next]_vars PROVE IInv'
    OBVIOUS
  <1>1. TypeOK'
    BY NextTypeOK DEF IInv
  <1>2. ASSUME NEW r \in Requests, Begin(r) \/ Serve(r) \/ Refuse(r) \/ CheckFails(r)
        PROVE  Safety'
    <2>1. CASE Begin(r) \/ DeadlockVictim(r) \/ Refuse(r) \/ CheckFails(r)
      BY <2>1, CalmSteps
    <2>2. CASE Generate(r)
      BY <2>2, CalmSteps, AllocateSafe, WriteFileSafe, RegisterSafe, CommitSafe DEF Generate
    <2>3. CASE MarkSubmitted(r)
      BY <2>3, CalmSteps, SelectVersionSafe, LockSubmittedSafe, CommitSubmittedSafe
      DEF MarkSubmitted
    <2> QED
      BY <1>2, <2>1, <2>2, <2>3 DEF Serve
  <1>3. Safety'
    BY <1>2, EnvironmentSafe DEF Next
  <1> QED
    BY <1>1, <1>3 DEF IInv, Safety

LEMMA Invariance == Spec => []IInv
  BY InitIInv, NextIInv, PTL DEF Spec

(* However many requests race, fail or die: one number of one application  *)
(* never denotes two documents.                                            *)
THEOREM NumbersAreUnique == Spec => []OneRowPerNumber
  <1>1. IInv => OneRowPerNumber
    BY DEF IInv
  <1> QED
    BY <1>1, Invariance, PTL

(* The submitted version is always a registered and immutable one, and a   *)
(* job shown as SUBMITTED has one.                                         *)
THEOREM SubmissionIsFrozen == Spec => []SubmittedIsFrozen
  <1>1. IInv => SubmittedIsFrozen
    BY DEF IInv
  <1> QED
    BY <1>1, Invariance, PTL

-----------------------------------------------------------------------------
(* Refinement: the store implements the archive.                           *)

archived == {<<v.job, v.number, v.content>> : v \in versions}

(* Only two kinds of step are seen by the archive: the commit of a packet  *)
(* and the commit of a submission.                                         *)
LEMMA CommitAppends ==
    ASSUME IInv, NEW r \in Requests, Commit(r)
    PROVE  Archive!ANext
  <1> DEFINE doc == Document(r, stamp[r])
             entry == <<cur[r], NextNumber(r), r>>
  <1>1. /\ versions' = versions \union {doc}
        /\ UNCHANGED <<frozen, submitted>>
        /\ ~Taken(cur[r], NextNumber(r))
    BY DEF IInv, PendingRow, Commit
  <1>2. /\ doc.job = cur[r] /\ doc.number = NextNumber(r) /\ doc.content = r
        /\ cur[r] \in Jobs /\ NextNumber(r) \in Nat
    BY DocumentType DEF IInv, TypeOK
  <1>3. archived' = archived \union {entry}
    BY <1>1, <1>2 DEF archived
  <1>4. \A d \in Requests : <<cur[r], NextNumber(r), d>> \notin archived
    BY <1>1 DEF archived, Taken
  <1>5. /\ entry \in Jobs \X Nat \X Requests /\ entry \in archived'
        /\ entry[1] = cur[r] /\ entry[2] = NextNumber(r)
    BY <1>2, <1>3
  <1>6. \E e \in archived' : /\ e \in Jobs \X Nat \X Requests
                             /\ \A d \in Requests : <<e[1], e[2], d>> \notin archived
                             /\ archived' = archived \union {e}
                             /\ UNCHANGED <<frozen, submitted>>
    BY <1>1, <1>3, <1>4, <1>5
  <1> QED
    BY <1>6 DEF Archive!ANext, Archive!Append, Archive!Archived, archived

LEMMA CommitSubmittedSubmits ==
    ASSUME IInv, NEW r \in Requests, CommitSubmitted(r)
    PROVE  Archive!ANext \/ UNCHANGED Archive!avars
  <1> DEFINE j == cur[r]
             n == snap[r].latest
  <1>1. /\ UNCHANGED versions /\ submitted \in [Jobs -> Nat]
        /\ submitted' = [submitted EXCEPT ![j] = IF fresh[r] THEN n ELSE @]
        /\ frozen' = frozen \union (IF fresh[r] THEN {<<j, n>>} ELSE {})
        /\ Taken(j, n)
    BY DEF IInv, TypeOK, PickedVersion, CommitSubmitted, PointsTo, Freezes
  <1>2. CASE ~fresh[r]
    BY <1>1, <1>2 DEF Archive!avars
  <1>3. CASE fresh[r]
    <2>1. PICK v \in versions : v.job = j /\ v.number = n
      BY <1>1 DEF Taken
    <2>2. v.content \in Requests
      BY DEF IInv, TypeOK, Row
    <2>3. Archive!Submit(j, n)
      BY <1>1, <1>3, <2>1, <2>2 DEF Archive!Submit, Archive!Archived
    <2> DEFINE entry == <<v.job, v.number, v.content>>
    <2>4. entry \in archived /\ entry[1] = j /\ entry[2] = n
      BY <2>1 DEF archived
    <2>5. \E e \in archived : Archive!Submit(e[1], e[2])
      BY <2>3, <2>4
    <2> QED
      BY <2>5 DEF Archive!ANext, archived
  <1> QED
    BY <1>2, <1>3

LEMMA OtherStepsStutter ==
    ASSUME IInv, [Next]_vars,
           \A r \in Requests : ~Commit(r) /\ ~CommitSubmitted(r)
    PROVE  UNCHANGED <<versions, frozen, submitted>>
  <1>1. ASSUME NEW r \in Requests, Abort(r) \/ Fail(r)
        PROVE  UNCHANGED <<versions, frozen, submitted>>
    BY <1>1 DEF Abort, Fail, db
  <1>2. ASSUME NEW r \in Requests, Begin(r) \/ Serve(r) \/ Refuse(r) \/ CheckFails(r)
        PROVE  UNCHANGED <<versions, frozen, submitted>>
    <2>1. CASE Begin(r) \/ DeadlockVictim(r) \/ Refuse(r) \/ CheckFails(r)
      BY <2>1, <1>1 DEF Begin, DeadlockVictim, Refuse, CheckFails, db
    <2>2. CASE Generate(r)
      <3>1. CASE Load(r) \/ CheckRisk(r) \/ FlushJob(r)
        BY <3>1, <1>1 DEF Load, CheckRisk, FlushJob, db
      <3>2. CASE Allocate(r) \/ WriteFile(r) \/ Register(r) \/ UploadToDrive(r) \/ Finish(r)
        BY <3>2, <1>1 DEF Allocate, WriteFile, Register, UploadToDrive, Finish, db
      <3> QED
        BY <2>2, <3>1, <3>2 DEF Generate
    <2>3. CASE MarkSubmitted(r)
      BY <2>3, <1>1
      DEF MarkSubmitted, PickApplication, ReadJob, SelectVersion, LockSubmitted, db
    <2> QED
      BY <1>2, <2>1, <2>2, <2>3 DEF Serve
  <1>3. CASE \E j \in Jobs : JobMovesOn(j)
    BY <1>3 DEF JobMovesOn
  <1>4. CASE Crash \/ UNCHANGED vars
    BY <1>4 DEF Crash, vars, db
  <1> QED
    BY <1>2, <1>3, <1>4 DEF Next

(* The detailed store, with its sessions, locks, files and failures,       *)
(* implements the archive: what a user sees only ever grows by whole       *)
(* documents under unused numbers, and what was submitted stays so.        *)
THEOREM StoreImplementsArchive == Spec => ImplementsArchive
  <1>1. Init => Archive!AInit
    BY DEF Init, Archive!AInit, Clean
  <1>2. IInv /\ [Next]_vars => [Archive!ANext]_(Archive!avars)
    <2> SUFFICES ASSUME IInv, [Next]_vars
                 PROVE  Archive!ANext \/ UNCHANGED Archive!avars
      OBVIOUS
    <2>1. CASE \E r \in Requests : Commit(r) \/ CommitSubmitted(r)
      BY <2>1, CommitAppends, CommitSubmittedSubmits
    <2>2. CASE \A r \in Requests : ~Commit(r) /\ ~CommitSubmitted(r)
      BY <2>2, OtherStepsStutter DEF Archive!avars
    <2> QED
      BY <2>1, <2>2
  <1> QED
    BY <1>1, <1>2, Invariance, PTL DEF Spec, ImplementsArchive, Archive!ASpec

-----------------------------------------------------------------------------
(* Dense numbers.  Without batches nothing is left pending by a failure,   *)
(* so a counter only moves when its row commits, and no session is ahead   *)
(* of it.                                                                  *)

NoBatch == \A r \in Requests : kind[r] # "batch"

(* A counter seen by a session is at most the committed one.               *)
NotAhead == \A r \in Requests : snap[r].latest <= latest[cur[r]]

(* The only pending counter of a request is that of the packet it writes.  *)
OwnCounter ==
    \A r \in Requests, j \in Jobs : HoldsApp(r, j) =>
      /\ pc[r] \in {"allocated", "written", "registered"}
      /\ j = cur[r]
      /\ wLatest[r][j] = NextNumber(r)

Counted ==
    /\ \A j \in Jobs : Numbers(j) = 1..latest[j]
    /\ NotAhead
    /\ OwnCounter

DInv ==
    /\ IInv
    /\ \A r \in Requests : pc[r] = "idle" => kind[r] = "generate"
    /\ NoBatch => Counted

(* A steady step of r leaves the committed counters alone and keeps its    *)
(* own session in order.                                                   *)
Steady(r) ==
    /\ OthersUntouched(r)
    /\ UNCHANGED <<latest, versions>>
    /\ snap'[r].latest <= latest[cur'[r]]
    /\ \A j \in Jobs : wLatest'[r][j] # 0 =>
         /\ pc'[r] \in {"allocated", "written", "registered"}
         /\ j = cur'[r]
         /\ wLatest'[r][j] = snap'[r].latest + 1

LEMMA SteadyCounted ==
    ASSUME Counted, NEW r \in Requests, Steady(r)
    PROVE  Counted'
  <1>1. (\A j \in Jobs : Numbers(j) = 1..latest[j])'
    BY DEF Counted, Steady, Numbers
  <1>2. NotAhead'
    BY DEF Counted, Steady, OthersUntouched, NotAhead
  <1>3. OwnCounter'
    BY DEF Counted, Steady, OthersUntouched, OwnCounter, HoldsApp, NextNumber
  <1> QED
    BY <1>1, <1>2, <1>3 DEF Counted

LEMMA AbortSteady ==
    ASSUME TypeOK, NEW r \in Requests, Abort(r)
    PROVE  Steady(r)
  <1>1. OthersUntouched(r)
    BY AbortCalm DEF Calm
  <1>2. /\ snap' = [snap EXCEPT ![r] = NoSnapshot]
        /\ cur' = [cur EXCEPT ![r] = SomeJob]
        /\ wLatest' = [wLatest EXCEPT ![r] = Clean(0)]
        /\ UNCHANGED <<latest, versions>>
    BY DEF Abort, Close, Discard, db
  <1>3. snap'[r].latest = 0 /\ cur'[r] \in Jobs /\ \A j \in Jobs : wLatest'[r][j] = 0
    BY <1>2, ChosenType DEF TypeOK, NoSnapshot, Clean
  <1> QED
    BY <1>1, <1>2, <1>3 DEF TypeOK, Steady

(* Without batches a failing request is aborted.                           *)
LEMMA FailSteady ==
    ASSUME TypeOK, NoBatch, NEW r \in Requests, Fail(r)
    PROVE  Steady(r)
  BY AbortSteady DEF NoBatch, Fail

(* A request that has allocated no number has no counter pending.          *)
LEMMA NothingPending ==
    ASSUME TypeOK, Counted, NEW r \in Requests,
           pc[r] \notin {"allocated", "written", "registered"}
    PROVE  \A j \in Jobs : wLatest[r][j] = 0
  BY DEF TypeOK, Counted, OwnCounter, HoldsApp

LEMMA BeginSteady ==
    ASSUME TypeOK, Counted, NEW r \in Requests, Begin(r)
    PROVE  Steady(r)
  <1>1. \A j \in Jobs : wLatest[r][j] = 0
    BY NothingPending DEF Begin
  <1> QED
    BY <1>1 DEF TypeOK, Counted, NotAhead, Begin, Goto, Steady, OthersUntouched, db, writes

LEMMA ReadSteady ==
    ASSUME TypeOK, Counted, NEW r \in Requests,
           Load(r) \/ PickApplication(r) \/ ReadJob(r)
    PROVE  Steady(r)
  <1>1. \A j \in Jobs : wLatest[r][j] = 0
    BY NothingPending DEF Load, PickApplication, ReadJob
  <1>2. CASE Load(r)
    <2>1. PICK j \in Jobs : /\ cur' = [cur EXCEPT ![r] = j]
                            /\ snap' = [snap EXCEPT ![r] = SeesJob(NoSnapshot, j)]
      BY <1>2 DEF Load, TakeJob
    <2>2. SeesJob(NoSnapshot, j).latest = 0
      BY DEF SeesJob, NoSnapshot
    <2> QED
      BY <1>1, <1>2, <2>1, <2>2
      DEF TypeOK, Load, TakeJob, Goto, Steady, OthersUntouched, db, writes
  <1>3. CASE PickApplication(r)
    <2>1. PICK j \in Jobs : /\ cur' = [cur EXCEPT ![r] = j]
                            /\ snap' = [snap EXCEPT ![r] = SeesApplication(snap[r], j)]
      BY <1>3 DEF PickApplication, TakeJob
    <2>2. SeesApplication(snap[r], j).latest = latest[j]
      BY DEF TypeOK, Snapshot, SeesApplication
    <2> QED
      BY <1>1, <1>3, <2>1, <2>2
      DEF TypeOK, PickApplication, TakeJob, Goto, Steady, OthersUntouched, db, writes
  <1>4. CASE ReadJob(r)
    <2>1. SeesJob(snap[r], cur[r]).latest = snap[r].latest
      BY DEF TypeOK, Snapshot, SeesJob
    <2> QED
      BY <1>1, <1>4, <2>1
      DEF TypeOK, Counted, NotAhead, ReadJob, Goto, Steady, OthersUntouched, db, writes
  <1> QED
    BY <1>2, <1>3, <1>4

(* Linking the job to its company has nothing to commit.                   *)
LEMMA CheckRiskSteady ==
    ASSUME TypeOK, Counted, NEW r \in Requests, CheckRisk(r)
    PROVE  Steady(r)
  <1>1. \A j \in Jobs : wLatest[r][j] = 0
    BY NothingPending DEF CheckRisk
  <1>2. LatestAfter(r) = latest
    BY <1>1 DEF TypeOK, LatestAfter, HoldsApp
  <1>3. /\ pc' = [pc EXCEPT ![r] = "checked"]
        /\ UNCHANGED <<versions, cur, stamp, fresh>>
        /\ cur[r] \in Jobs
    BY DEF TypeOK, CheckRisk, Goto
  <1>4. CASE /\ snap' = [snap EXCEPT ![r] = SeesApplication(snap[r], cur[r])]
             /\ UNCHANGED <<jobState, appState, latest, writes>>
    <2>1. SeesApplication(snap[r], cur[r]).latest = latest[cur[r]]
      BY <1>3 DEF TypeOK, Snapshot, SeesApplication
    <2> QED
      BY <1>1, <1>3, <1>4, <2>1 DEF TypeOK, Steady, OthersUntouched, writes
  <1>5. CASE /\ latest' = LatestAfter(r)
             /\ Discard(r)
             /\ snap' = [snap EXCEPT ![r] = [jobState |-> jobState'[cur[r]],
                                             appState |-> appState'[cur[r]],
                                             latest |-> latest'[cur[r]]]]
    BY <1>2, <1>3, <1>5 DEF TypeOK, Discard, Clean, Steady, OthersUntouched
  <1> QED
    BY <1>4, <1>5 DEF CheckRisk

LEMMA WritingSteady ==
    ASSUME IInv, NoBatch, Counted, NEW r \in Requests,
           FlushJob(r) \/ Allocate(r) \/ WriteFile(r) \/ Register(r) \/ UploadToDrive(r)
    PROVE  Steady(r)
  <1>1. TypeOK /\ (~Abort(r) => ~Fail(r))
    BY DEF IInv, NoBatch, Fail
  <1>2. CASE Abort(r)
    BY <1>1, <1>2, AbortSteady
  <1>3. CASE ~Abort(r) /\ FlushJob(r)
    <2>1. /\ \A j \in Jobs : wLatest[r][j] = 0
          /\ pc' = [pc EXCEPT ![r] = "flushed"]
          /\ \E v : wJob' = [wJob EXCEPT ![r] = v]
          /\ UNCHANGED <<db, session, wLatest, wRows>>
      BY <1>1, <1>3, NothingPending DEF FlushJob, Goto
    <2> QED
      BY <1>1, <2>1 DEF TypeOK, Counted, NotAhead, Steady, OthersUntouched, db, session
  <1>4. CASE Allocate(r)
    <2>1. \A j \in Jobs : wLatest[r][j] = 0
      BY <1>1, <1>4, NothingPending DEF Allocate
    <2>2. \A j \in Jobs : wLatest'[r][j] = IF j = cur[r] THEN NextNumber(r) ELSE 0
      BY <1>1, <1>4, <2>1 DEF TypeOK, Allocate
    <2> QED
      BY <1>1, <1>4, <2>2
      DEF TypeOK, Counted, NotAhead, NextNumber, Allocate, Goto, Steady, OthersUntouched,
          db, session
  <1>5. CASE WriteFile(r)
    <2>1. /\ pc[r] = "allocated" /\ pc' = [pc EXCEPT ![r] = "written"]
          /\ \E s : stamp' = [stamp EXCEPT ![r] = s]
          /\ UNCHANGED <<latest, versions, cur, snap, fresh, writes>>
      BY <1>5 DEF WriteFile, Goto, db
    <2> QED
      BY <1>1, <2>1
      DEF TypeOK, Counted, NotAhead, OwnCounter, HoldsApp, NextNumber, Steady,
          OthersUntouched, writes
  <1>6. CASE ~Abort(r) /\ Register(r)
    <2>1. /\ pc' = [pc EXCEPT ![r] = "registered"]
          /\ \E v : wRows' = [wRows EXCEPT ![r] = v]
          /\ UNCHANGED <<db, session, wJob, wApp, wLatest>>
      BY <1>1, <1>6 DEF Register, Goto
    <2> QED
      BY <1>1, <2>1
      DEF TypeOK, Counted, NotAhead, OwnCounter, HoldsApp, NextNumber, Steady,
          OthersUntouched, db, session
  <1>7. CASE UploadToDrive(r)
    <2>1. \A j \in Jobs : wLatest[r][j] = 0
      BY <1>1, <1>7, NothingPending DEF UploadToDrive
    <2> QED
      BY <1>1, <1>7, <2>1
      DEF TypeOK, Counted, NotAhead, UploadToDrive, Goto, Steady, OthersUntouched, db,
          session, writes
  <1> QED
    BY <1>2, <1>3, <1>4, <1>5, <1>6, <1>7

LEMMA SubmitSteady ==
    ASSUME TypeOK, Counted, NEW r \in Requests,
           SelectVersion(r) \/ LockSubmitted(r) \/ CommitSubmitted(r)
    PROVE  Steady(r)
  <1>1. \A j \in Jobs : wLatest[r][j] = 0
    BY NothingPending DEF SelectVersion, LockSubmitted, CommitSubmitted
  <1>2. CASE Abort(r)
    BY <1>2, AbortSteady
  <1>3. CASE ~Abort(r) /\ SelectVersion(r)
    BY <1>1, <1>3
    DEF TypeOK, Counted, NotAhead, SelectVersion, Goto, Steady, OthersUntouched, db, writes
  <1>4. CASE LockSubmitted(r)
    <2>1. \E v : wJob' = [wJob EXCEPT ![r] = v]
      BY <1>4 DEF LockSubmitted
    <2> QED
      BY <1>1, <1>4, <2>1
      DEF TypeOK, Counted, NotAhead, LockSubmitted, Goto, Steady, OthersUntouched, db,
          session
  <1>5. CASE CommitSubmitted(r)
    <2>1. /\ snap' = [snap EXCEPT ![r] = NoSnapshot]
          /\ cur' = [cur EXCEPT ![r] = SomeJob]
          /\ wLatest' = [wLatest EXCEPT ![r] = Clean(0)]
          /\ UNCHANGED <<latest, versions>>
      BY <1>5 DEF CommitSubmitted, Close, Discard
    <2>2. OthersUntouched(r)
      BY <1>5 DEF TypeOK, CommitSubmitted, Goto, Close, Discard, OthersUntouched
    <2>3. snap'[r].latest = 0 /\ cur'[r] \in Jobs /\ \A j \in Jobs : wLatest'[r][j] = 0
      BY <2>1, ChosenType DEF TypeOK, NoSnapshot, Clean
    <2> QED
      BY <2>1, <2>2, <2>3 DEF TypeOK, Steady
  <1> QED
    BY <1>2, <1>3, <1>4, <1>5

(* The number of a row that can be committed is the successor of the       *)
(* committed counter: a smaller one is taken, and no session is ahead.     *)
LEMMA CommitCounted ==
    ASSUME IInv, Counted, NEW r \in Requests, Commit(r)
    PROVE  Counted'
  <1> DEFINE j == cur[r]
             doc == Document(r, stamp[r])
  <1>1. /\ pc[r] = "registered" /\ j \in Jobs
        /\ pc' = [pc EXCEPT ![r] = "committed"]
        /\ versions' = versions \union {doc}
        /\ latest' = LatestAfter(r)
        /\ Discard(r)
        /\ UNCHANGED session
        /\ latest \in [Jobs -> Nat]
    BY DEF IInv, TypeOK, PendingRow, Commit, Goto
  <1>2. doc.job = j /\ doc.number = NextNumber(r) /\ NextNumber(r) \in Nat
        /\ NextNumber(r) > 0
    BY DocumentType DEF IInv, TypeOK
  <1>3. NextNumber(r) = latest[j] + 1
    <2>1. NextNumber(r) \notin Numbers(j)
      BY <1>1 DEF IInv, PendingRow, Taken, Numbers
    <2>2. Numbers(j) = 1..latest[j] /\ snap[r].latest <= latest[j]
      BY <1>1 DEF Counted, NotAhead
    <2>3. snap[r].latest \in Nat
      BY DEF IInv, TypeOK, Snapshot
    <2> QED
      BY <1>1, <1>2, <2>1, <2>2, <2>3 DEF NextNumber
  <1>4. latest'[j] = latest[j] + 1 /\ \A i \in Jobs \ {j} : latest'[i] = latest[i]
    <2>1. HoldsApp(r, j) /\ wLatest[r][j] = NextNumber(r)
      BY <1>1 DEF IInv, LocksHeld, Counted, OwnCounter
    <2>2. \A i \in Jobs \ {j} : ~HoldsApp(r, i)
      BY DEF Counted, OwnCounter
    <2> QED
      BY <1>1, <1>3, <2>1, <2>2 DEF LatestAfter
  <1>5. (\A i \in Jobs : Numbers(i) = 1..latest[i])'
    <2> SUFFICES ASSUME NEW i \in Jobs PROVE Numbers(i)' = 1..latest'[i]
      OBVIOUS
    <2>1. CASE i = j
      <3>1. Numbers(i)' = Numbers(i) \union {NextNumber(r)}
        BY <1>1, <1>2, <2>1 DEF Numbers
      <3>2. Numbers(i) = 1..latest[j] /\ latest[j] \in Nat
        BY <1>1, <2>1 DEF Counted
      <3> QED
        BY <1>3, <1>4, <2>1, <3>1, <3>2
    <2>2. CASE i # j
      <3>1. Numbers(i)' = Numbers(i)
        BY <1>1, <1>2, <2>2 DEF Numbers
      <3> QED
        BY <1>4, <2>2, <3>1 DEF Counted
    <2> QED
      BY <2>1, <2>2
  <1>6. NotAhead'
    <2> SUFFICES ASSUME NEW q \in Requests PROVE snap[q].latest <= latest'[cur[q]]
      BY <1>1 DEF NotAhead, session
    <2>1. snap[q].latest \in Nat /\ cur[q] \in Jobs /\ snap[q].latest <= latest[cur[q]]
      BY DEF IInv, TypeOK, Snapshot, Counted, NotAhead
    <2> QED
      BY <1>1, <1>4, <2>1
  <1>7. OwnCounter'
    <2>1. /\ wLatest'[r] = Clean(0)
          /\ \A q \in Requests \ {r} : wLatest'[q] = wLatest[q] /\ pc'[q] = pc[q]
      BY <1>1 DEF IInv, TypeOK, Discard
    <2> QED
      BY <1>1, <2>1 DEF Counted, OwnCounter, HoldsApp, NextNumber, Clean, session
  <1> QED
    BY <1>5, <1>6, <1>7 DEF Counted

LEMMA EnvironmentCounted ==
    ASSUME TypeOK, Counted, (\E j \in Jobs : JobMovesOn(j)) \/ Crash \/ UNCHANGED vars
    PROVE  Counted'
  <1>1. CASE (\E j \in Jobs : JobMovesOn(j)) \/ UNCHANGED vars
    <2>1. UNCHANGED <<latest, versions, pc, cur, snap, wLatest>>
      BY <1>1 DEF JobMovesOn, vars, db, session, writes
    <2> QED
      BY <2>1 DEF Counted, Numbers, NotAhead, OwnCounter, HoldsApp, NextNumber
  <1>2. CASE Crash
    <2>1. /\ UNCHANGED <<latest, versions>>
          /\ \A r \in Requests : /\ snap'[r] = NoSnapshot /\ cur'[r] \in Jobs
                                 /\ wLatest'[r] = Clean(0)
      BY <1>2, ChosenType DEF Crash, db
    <2>2. \A j \in Jobs : 0 <= latest[j]
      BY DEF TypeOK
    <2> QED
      BY <2>1, <2>2
      DEF Counted, Numbers, NotAhead, OwnCounter, HoldsApp, Clean, NoSnapshot
  <1> QED
    BY <1>1, <1>2

LEMMA NextCounted ==
    ASSUME IInv, NoBatch, Counted, [Next]_vars
    PROVE  Counted'
  <1>1. TypeOK
    BY DEF IInv
  <1>2. ASSUME NEW r \in Requests, Begin(r) \/ Refuse(r) \/ CheckFails(r) \/ DeadlockVictim(r)
        PROVE  Counted'
    BY <1>1, <1>2, BeginSteady, FailSteady, AbortSteady, SteadyCounted
    DEF Refuse, CheckFails, DeadlockVictim
  <1>3. ASSUME NEW r \in Requests, Generate(r)
        PROVE  Counted'
    <2>1. CASE Load(r) \/ CheckRisk(r)
      BY <1>1, <2>1, ReadSteady, CheckRiskSteady, SteadyCounted
    <2>2. CASE FlushJob(r) \/ Allocate(r) \/ WriteFile(r) \/ Register(r) \/ UploadToDrive(r)
      BY <2>2, WritingSteady, SteadyCounted
    <2>3. CASE Commit(r)
      BY <2>3, CommitCounted
    <2>4. CASE Finish(r)
      BY <1>1, <2>4, AbortSteady, SteadyCounted DEF Finish
    <2> QED
      BY <1>3, <2>1, <2>2, <2>3, <2>4 DEF Generate
  <1>4. ASSUME NEW r \in Requests, MarkSubmitted(r)
        PROVE  Counted'
    BY <1>1, <1>4, ReadSteady, SubmitSteady, SteadyCounted DEF MarkSubmitted
  <1> QED
    BY <1>1, <1>2, <1>3, <1>4, EnvironmentCounted DEF Next, Serve

(* A request keeps its kind from its arrival on.                           *)
LEMMA NextKind ==
    ASSUME IInv, \A r \in Requests : pc[r] = "idle" => kind[r] = "generate", [Next]_vars
    PROVE  /\ (\A r \in Requests : pc[r] = "idle" => kind[r] = "generate")'
           /\ NoBatch' => NoBatch
  <1>1. ASSUME NEW r \in Requests, pc'[r] # "idle", UNCHANGED kind,
               \A q \in Requests \ {r} : pc'[q] = pc[q]
        PROVE  (\A q \in Requests : pc[q] = "idle" => kind[q] = "generate")'
    BY <1>1
  <1>2. ASSUME NEW r \in Requests, Begin(r)
        PROVE  /\ (\A q \in Requests : pc[q] = "idle" => kind[q] = "generate")'
               /\ NoBatch' => NoBatch
    <2>1. /\ pc[r] = "idle" /\ pc' = [pc EXCEPT ![r] = "next"]
          /\ \E k : kind' = [kind EXCEPT ![r] = k]
      BY <1>2 DEF Begin, Goto
    <2> QED
      BY <2>1 DEF IInv, TypeOK, NoBatch
  <1>3. ASSUME NEW r \in Requests, Serve(r) \/ Refuse(r) \/ CheckFails(r)
        PROVE  UNCHANGED kind /\ \E label : pc' = [pc EXCEPT ![r] = label] /\ label # "idle"
    <2>1. CASE Abort(r) \/ Fail(r)
      BY <2>1 DEF Abort, Fail, Goto, session
    <2>2. CASE Load(r) \/ CheckRisk(r) \/ FlushJob(r) \/ Allocate(r) \/ WriteFile(r)
      BY <2>1, <2>2 DEF Load, CheckRisk, FlushJob, Allocate, WriteFile, Goto, session
    <2>3. CASE Register(r) \/ Commit(r) \/ UploadToDrive(r) \/ Finish(r)
      BY <2>1, <2>3 DEF Register, Commit, UploadToDrive, Finish, Goto, session
    <2>4. CASE MarkSubmitted(r)
      BY <2>1, <2>4
      DEF MarkSubmitted, PickApplication, ReadJob, SelectVersion, LockSubmitted,
          CommitSubmitted, Goto, session
    <2>5. CASE DeadlockVictim(r) \/ Refuse(r) \/ CheckFails(r)
      BY <2>1, <2>5 DEF DeadlockVictim, Refuse, CheckFails
    <2> QED
      BY <1>3, <2>2, <2>3, <2>4, <2>5 DEF Serve, Generate
  <1>4. ASSUME NEW r \in Requests, Serve(r) \/ Refuse(r) \/ CheckFails(r)
        PROVE  /\ (\A q \in Requests : pc[q] = "idle" => kind[q] = "generate")'
               /\ NoBatch' => NoBatch
    <2>1. /\ UNCHANGED kind
          /\ pc'[r] # "idle" /\ \A q \in Requests \ {r} : pc'[q] = pc[q]
      BY <1>3, <1>4 DEF IInv, TypeOK
    <2> QED
      BY <1>1, <2>1 DEF NoBatch
  <1>5. CASE Crash
    <2>1. UNCHANGED kind /\ \A r \in Requests : pc'[r] = "idle" => pc[r] = "idle"
      BY <1>5 DEF Crash, InFlight
    <2> QED
      BY <2>1 DEF NoBatch
  <1>6. CASE (\E j \in Jobs : JobMovesOn(j)) \/ UNCHANGED vars
    BY <1>6 DEF JobMovesOn, vars, session, NoBatch
  <1> QED
    BY <1>2, <1>4, <1>5, <1>6 DEF Next

(* As long as no batch has been served, the numbers of an application are  *)
(* exactly 1 to its counter, whichever requests race, fail or die.         *)
THEOREM NumbersAreDense == Spec => []DenseNumbers
  <1>1. Init => DInv
    <2> SUFFICES ASSUME Init PROVE DInv
      OBVIOUS
    <2>1. Counted
      <3>1. \A j \in Jobs : Numbers(j) = 1..latest[j]
        <4>1. versions = {} /\ \A j \in Jobs : latest[j] = 0
          BY DEF Init, Clean
        <4>2. 1..0 = {}
          OBVIOUS
        <4> QED
          BY <4>1, <4>2 DEF Numbers
      <3>2. NotAhead
        BY ChosenType DEF Init, Clean, NoSnapshot, NotAhead
      <3>3. OwnCounter
        BY DEF Init, Clean, OwnCounter, HoldsApp
      <3> QED
        BY <3>1, <3>2, <3>3 DEF Counted
    <2> QED
      BY <2>1, InitIInv DEF Init, DInv
  <1>2. DInv /\ [Next]_vars => DInv'
    <2> SUFFICES ASSUME DInv, [Next]_vars PROVE DInv'
      OBVIOUS
    <2>1. IInv'
      BY NextIInv DEF DInv
    <2> QED
      BY <2>1, NextKind, NextCounted DEF DInv
  <1>3. DInv => DenseNumbers
    BY DEF DInv, NoBatch, Counted, DenseNumbers
  <1> QED
    BY <1>1, <1>2, <1>3, PTL DEF Spec
-----------------------------------------------------------------------------
(* The files, which are written outside the transaction.                   *)

(* A request works on a job that it has taken off its list.                *)
Between == {"idle", "next", "done"}
JobTaken == \A r \in Requests : pc[r] \notin Between => cur[r] \notin todo[r]

(* A request renders a job at most once: whatever shows a document of a    *)
(* request, on disk or in the table, shows one it is done with or the one  *)
(* it has just written.                                                    *)
Unwritten == {"loaded", "checked", "flushed", "allocated"}
Fresh == {"written", "registered"}

Rendered(d) ==
    LET r == d.content IN
    /\ pc[r] # "idle"
    /\ d.job \notin todo[r]
    /\ pc[r] \in Unwritten => cur[r] # d.job
    /\ pc[r] \in Fresh /\ cur[r] = d.job => d = Document(r, stamp[r])

Shown == files \union versions
OncePerJob == \A d, e \in Shown : d.content = e.content /\ d.job = e.job => d = e

FilesInv ==
    /\ IInv
    /\ JobTaken
    /\ \A d \in Shown : Rendered(d)
    /\ OncePerJob

(* A step of r leaves the other requests alone.                            *)
Elsewhere(r) ==
    \A q \in Requests \ {r} :
      /\ pc'[q] = pc[q] /\ todo'[q] = todo[q] /\ cur'[q] = cur[q]
      /\ snap'[q] = snap[q] /\ stamp'[q] = stamp[q]

(* A step that shows no new document and takes at most one job off the     *)
(* list.                                                                   *)
Quiet(r) ==
    /\ Elsewhere(r)
    /\ UNCHANGED Shown
    /\ pc'[r] # "idle"
    /\ pc[r] = "idle" \/ todo'[r] \subseteq todo[r]
    /\ pc'[r] \notin Between => cur'[r] \notin todo'[r]
    /\ pc'[r] \in Unwritten =>
         cur'[r] \in todo[r] \/ (pc[r] \in Unwritten /\ cur'[r] = cur[r])
    /\ pc'[r] \in Fresh =>
         /\ pc[r] = "written"
         /\ cur'[r] = cur[r] /\ snap'[r] = snap[r] /\ stamp'[r] = stamp[r]

LEMMA ShownType ==
    ASSUME TypeOK, NEW d \in Shown
    PROVE  d \in Row /\ d.content \in Requests /\ d.job \in Jobs
  BY DEF TypeOK, Shown, Row

LEMMA OthersRendered ==
    ASSUME FilesInv, NEW r \in Requests, Elsewhere(r), NEW d \in Shown, d.content # r
    PROVE  Rendered(d)'
  <1>1. d.content \in Requests \ {r}
    BY ShownType DEF FilesInv, IInv
  <1> QED
    BY <1>1 DEF FilesInv, Elsewhere, Rendered, Document, NextNumber

LEMMA QuietFiles ==
    ASSUME FilesInv, NEW r \in Requests, Quiet(r)
    PROVE  JobTaken' /\ (\A d \in Shown : Rendered(d))' /\ OncePerJob'
  <1>1. JobTaken'
    BY DEF FilesInv, JobTaken, Quiet, Elsewhere, Between
  <1>2. ASSUME NEW d \in Shown, d.content = r PROVE Rendered(d)'
    <2>1. Rendered(d) /\ pc[r] # "idle"
      BY <1>2 DEF FilesInv, Rendered
    <2>2. d.job \notin todo'[r] /\ (pc'[r] \in Unwritten => cur'[r] # d.job)
      BY <1>2, <2>1 DEF Quiet, Rendered
    <2>3. pc'[r] \in Fresh /\ cur'[r] = d.job => d = (Document(r, stamp[r]))'
      BY <1>2, <2>1 DEF Quiet, Rendered, Document, NextNumber, Fresh
    <2> QED
      BY <1>2, <2>2, <2>3 DEF Quiet, Rendered
  <1>3. (\A d \in Shown : Rendered(d))'
    BY <1>2, OthersRendered DEF Quiet
  <1> QED
    BY <1>1, <1>3 DEF FilesInv, OncePerJob, Quiet

LEMMA AbortQuiet ==
    ASSUME IInv, NEW r \in Requests, Abort(r)
    PROVE  Quiet(r)
  BY DEF IInv, TypeOK, Abort, Close, Goto, Quiet, Elsewhere, Shown, db, Between, Unwritten,
         Fresh

LEMMA FailQuiet ==
    ASSUME IInv, NEW r \in Requests, Fail(r)
    PROVE  Quiet(r)
  <1>1. CASE Abort(r)
    BY <1>1, AbortQuiet
  <1>2. CASE Goto(r, "next") /\ UNCHANGED <<db, files, drive, session, writes>>
    BY <1>2 DEF IInv, TypeOK, Goto, Quiet, Elsewhere, Shown, db, session, Between,
                Unwritten, Fresh
  <1> QED
    BY <1>1, <1>2 DEF Fail

LEMMA QuietSteps ==
    ASSUME FilesInv, NEW r \in Requests,
           Begin(r) \/ Serve(r) \/ Refuse(r) \/ CheckFails(r),
           ~WriteFile(r), ~Commit(r)
    PROVE  Quiet(r)
  <1> IInv /\ TypeOK /\ JobTaken
    BY DEF FilesInv, IInv
  <1>1. CASE Abort(r) \/ Fail(r)
    BY <1>1, AbortQuiet, FailQuiet
  <1>2. CASE Begin(r)
    BY <1>2 DEF TypeOK, Begin, Goto, Quiet, Elsewhere, Shown, db, Between, Unwritten, Fresh
  <1>3. CASE Load(r)
    BY <1>3 DEF TypeOK, Load, TakeJob, Goto, Quiet, Elsewhere, Shown, db, Between,
                Unwritten, Fresh
  <1>4. CASE CheckRisk(r)
    <2>1. \E x : snap' = [snap EXCEPT ![r] = x]
      BY <1>4 DEF CheckRisk
    <2> QED
      BY <1>4, <2>1 DEF TypeOK, CheckRisk, Goto, JobTaken, Quiet, Elsewhere, Shown,
                        Between, Unwritten, Fresh
  <1>5. CASE FlushJob(r) /\ ~Abort(r)
    BY <1>5 DEF TypeOK, FlushJob, Goto, JobTaken, Quiet, Elsewhere, Shown, db, session,
                Between, Unwritten, Fresh
  <1>6. CASE Allocate(r)
    BY <1>6 DEF TypeOK, Allocate, Goto, JobTaken, Quiet, Elsewhere, Shown, db, session,
                Between, Unwritten, Fresh
  <1>7. CASE Register(r) /\ ~Fail(r) /\ ~Abort(r)
    BY <1>7 DEF TypeOK, Register, Goto, JobTaken, Quiet, Elsewhere, Shown, db, session,
                Between, Unwritten, Fresh
  <1>8. CASE UploadToDrive(r)
    BY <1>8 DEF TypeOK, UploadToDrive, Goto, Quiet, Elsewhere, Shown, db, session,
                Between, Unwritten, Fresh
  <1>9. CASE PickApplication(r) \/ ReadJob(r)
    BY <1>9 DEF TypeOK, PickApplication, ReadJob, TakeJob, Goto, JobTaken, Quiet,
                Elsewhere, Shown, db, Between, Unwritten, Fresh
  <1>10. CASE (SelectVersion(r) /\ ~Abort(r)) \/ LockSubmitted(r)
    BY <1>10 DEF TypeOK, SelectVersion, LockSubmitted, Goto, JobTaken, Quiet, Elsewhere,
                 Shown, db, session, Between, Unwritten, Fresh
  <1>11. CASE CommitSubmitted(r)
    BY <1>11 DEF TypeOK, CommitSubmitted, Close, Goto, Quiet, Elsewhere, Shown, Between,
                 Unwritten, Fresh
  <1> QED
    BY <1>1, <1>2, <1>3, <1>4, <1>5, <1>6, <1>7, <1>8, <1>9, <1>10, <1>11
       DEF Serve, Generate, MarkSubmitted, DeadlockVictim, Refuse, CheckFails, Finish

(* A document is new on disk when it is written: its request has not       *)
(* rendered the job before.                                                *)
LEMMA WriteFileFiles ==
    ASSUME FilesInv, NEW r \in Requests, WriteFile(r)
    PROVE  JobTaken' /\ (\A d \in Shown : Rendered(d))' /\ OncePerJob'
  <1> IInv /\ TypeOK /\ JobTaken
    BY DEF FilesInv, IInv
  <1>1. PICK s \in Stamps :
          /\ files' = {f \in files : ~SamePath(f, Document(r, s))} \union {Document(r, s)}
          /\ stamp' = [stamp EXCEPT ![r] = s]
    BY DEF WriteFile
  <1>0. PICK doc : doc = Document(r, s)
    OBVIOUS
  <1>2. /\ pc[r] = "allocated" /\ pc' = [pc EXCEPT ![r] = "written"]
        /\ UNCHANGED <<versions, todo, cur, snap>>
        /\ pc'[r] = "written" /\ stamp'[r] = s
    BY <1>1 DEF TypeOK, WriteFile, Goto, db
  <1>3. Elsewhere(r)
    BY <1>1, <1>2 DEF TypeOK, Elsewhere
  <1>4. Shown' \subseteq Shown \union {doc}
    BY <1>0, <1>1, <1>2 DEF Shown
  <1>5. doc.content = r /\ doc.job = cur[r] /\ doc = (Document(r, stamp[r]))'
    BY <1>0, <1>2 DEF Document, NextNumber
  <1>6. \A d \in Shown : d.content = r => d.job # cur[r]
    BY <1>2 DEF FilesInv, Rendered, Unwritten
  <1>7. JobTaken'
    BY <1>2, <1>3 DEF JobTaken, Elsewhere, Between
  <1>8. ASSUME NEW d \in Shown, d.content = r PROVE Rendered(d)'
    BY <1>2, <1>6, <1>8 DEF FilesInv, Rendered, Unwritten, Fresh
  <1>9. Rendered(doc)'
    BY <1>2, <1>5 DEF JobTaken, Rendered, Unwritten, Between
  <1>10. OncePerJob'
    BY <1>4, <1>5, <1>6 DEF FilesInv, OncePerJob
  <1> QED
    BY <1>3, <1>4, <1>7, <1>8, <1>9, <1>10, OthersRendered

(* The row that a commit adds is the document just written.                *)
LEMMA CommitFiles ==
    ASSUME FilesInv, NEW r \in Requests, Commit(r)
    PROVE  JobTaken' /\ (\A d \in Shown : Rendered(d))' /\ OncePerJob'
  <1> IInv /\ TypeOK /\ JobTaken
    BY DEF FilesInv, IInv
  <1>0. PICK doc : doc = Document(r, stamp[r])
    OBVIOUS
  <1>1. /\ pc[r] = "registered" /\ pc' = [pc EXCEPT ![r] = "committed"]
        /\ versions' = versions \union {doc}
        /\ UNCHANGED <<files, todo, cur, snap, stamp>>
        /\ pc'[r] = "committed"
    BY <1>0 DEF TypeOK, IInv, PendingRow, Commit, Goto, session
  <1>2. Elsewhere(r)
    BY <1>1 DEF TypeOK, Elsewhere
  <1>3. Shown' = Shown \union {doc}
    BY <1>1 DEF Shown
  <1>4. doc.content = r /\ doc.job = cur[r]
    BY <1>0 DEF Document
  <1>5. \A d \in Shown : d.content = r /\ d.job = cur[r] => d = doc
    BY <1>0, <1>1 DEF FilesInv, Rendered, Fresh
  <1>6. JobTaken'
    BY <1>1 DEF TypeOK, JobTaken, Between
  <1>7. ASSUME NEW d \in Shown, d.content = r PROVE Rendered(d)'
    BY <1>1, <1>7 DEF FilesInv, Rendered, Unwritten, Fresh
  <1>8. Rendered(doc)'
    BY <1>1, <1>4 DEF JobTaken, Rendered, Unwritten, Between, Fresh
  <1>9. OncePerJob'
    BY <1>3, <1>4, <1>5 DEF FilesInv, OncePerJob
  <1> QED
    BY <1>2, <1>3, <1>6, <1>7, <1>8, <1>9, OthersRendered

LEMMA InitFilesInv == Init => FilesInv
  BY InitIInv DEF Init, FilesInv, JobTaken, Between, Shown, OncePerJob

LEMMA NextFilesInv == FilesInv /\ [Next]_vars => FilesInv'
  <1> SUFFICES ASSUME FilesInv, [Next]_vars
               PROVE  JobTaken' /\ (\A d \in Shown : Rendered(d))' /\ OncePerJob'
    BY NextIInv DEF FilesInv
  <1>1. CASE \E r \in Requests : Begin(r) \/ Serve(r) \/ Refuse(r) \/ CheckFails(r)
    BY <1>1, WriteFileFiles, CommitFiles, QuietSteps, QuietFiles
  <1>2. CASE Crash
    <2>1. UNCHANGED Shown /\ \A d \in Shown : d.content \in Requests
      BY <1>2, ShownType DEF Crash, Shown, db, FilesInv, IInv
    <2>2. \A r \in Requests : /\ pc[r] # "idle" => pc'[r] = "done"
                              /\ pc'[r] \in {"idle", "done"} /\ todo'[r] = {}
      BY <1>2 DEF Crash, InFlight
    <2>3. (\A d \in Shown : Rendered(d))'
      BY <2>1, <2>2 DEF FilesInv, Rendered, Unwritten, Fresh
    <2> QED
      BY <2>1, <2>2, <2>3 DEF FilesInv, JobTaken, Between, OncePerJob
  <1>3. CASE (\E j \in Jobs : JobMovesOn(j)) \/ UNCHANGED vars
    <2>1. UNCHANGED <<pc, todo, cur, snap, stamp, files, versions>>
      BY <1>3 DEF JobMovesOn, vars, db, session
    <2> QED
      BY <2>1 DEF FilesInv, JobTaken, Shown, Rendered, Document, NextNumber, OncePerJob
  <1> QED
    BY <1>1, <1>2, <1>3 DEF Next

(* However requests race, fail or die, the file found where a version was  *)
(* put may be lost to another packet, but never shows a document that is   *)
(* registered as another version (document_path, register_packet_version). *)
THEOREM FilesNeverSwapped == Spec => []NeverSwapped
  <1>1. FilesInv => NeverSwapped
    <2> SUFFICES ASSUME FilesInv, NEW u \in versions, NEW v \in versions, NEW f \in files,
                        SamePath(f, u), f.content = v.content, f.job = v.job
                 PROVE  u = v
      BY DEF NeverSwapped
    <2>1. f = v
      BY DEF FilesInv, OncePerJob, Shown
    <2> QED
      BY <2>1 DEF FilesInv, IInv, OneRowPerNumber, SamePath
  <1>2. Spec => []FilesInv
    BY InitFilesInv, NextFilesInv, PTL DEF Spec
  <1> QED
    BY <1>1, <1>2, PTL

-----------------------------------------------------------------------------
(* One request at a time.                                                  *)

OnePerPath == \A f, g \in files : SamePath(f, g) => f = g

OneAtATime == \A r, q \in InFlight : r = q

(* The counters, committed and pending: no version is numbered above its   *)
(* counter, a session has read the counter of the job it works on, and a   *)
(* flushed counter, even one that a failed job of a batch left behind, is  *)
(* ahead of the committed one.                                             *)
Counting == {"checked", "flushed", "allocated", "written", "registered"}
Counters ==
    /\ \A v \in versions : v.number <= latest[v.job]
    /\ \A r \in Requests :
         /\ pc[r] \in Counting => snap[r].latest = latest[cur[r]]
         /\ pc[r] \in {"allocated", "written", "registered"} =>
              wLatest[r][cur[r]] = NextNumber(r)
         /\ \A j \in Jobs : HoldsApp(r, j) =>
              r \in InFlight /\ latest[j] < wLatest[r][j]

(* What has been written stays where it is.                                *)
Mine(r) == Document(r, stamp[r])
Kept ==
    /\ \A v \in versions : OnDisk(v)
    /\ \A r \in Requests :
         /\ pc[r] \in {"written", "registered", "committed"} => Mine(r) \in files
         /\ pc[r] = "committed" => Mine(r) \in versions

DriveTells ==
    \A c \in drive : \E v \in versions :
      v.job = c.job /\ v.number = c.number /\ v.content = c.content

SerialInv ==
    /\ IInv
    /\ OnePerPath
    /\ workers = 1 => OneAtATime /\ Counters /\ Kept /\ DriveTells

LEMMA AbortEnds ==
    ASSUME IInv, NEW r \in Requests, Abort(r)
    PROVE  pc'[r] = "done"
  BY DEF IInv, TypeOK, Abort, Goto

(* A request takes a step.                                                 *)
Step(r) == Begin(r) \/ Serve(r) \/ Refuse(r) \/ CheckFails(r)

LEMMA StepStays ==
    ASSUME IInv, NEW r \in Requests, Step(r)
    PROVE  /\ Begin(r) \/ r \in InFlight
           /\ workers' = workers /\ Elsewhere(r)
  <1> TypeOK
    BY DEF IInv
  <1>1. Abort(r) \/ Fail(r) => workers' = workers /\ Elsewhere(r)
    <2>1. Abort(r) \/ Fail(r) => Quiet(r)
      BY AbortQuiet, FailQuiet
    <2> QED
      BY <2>1 DEF Quiet, Abort, Fail, session
  <1>2. CASE Begin(r)
    BY <1>2 DEF TypeOK, Begin, Goto, Elsewhere
  <1>3. CASE Refuse(r) \/ CheckFails(r)
    BY <1>1, <1>3 DEF Refuse, CheckFails, InFlight
  <1>4. CASE DeadlockVictim(r)
    <2>1. pc[r] \in {"checked", "flushed", "locked", "registered", "selected"}
      BY <1>4 DEF DeadlockVictim, BlockedBy
    <2> QED
      BY <1>1, <1>4, <2>1 DEF DeadlockVictim, InFlight
  <1>5. CASE Load(r) \/ FlushJob(r) \/ Allocate(r) \/ WriteFile(r)
    BY <1>1, <1>5 DEF TypeOK, Load, TakeJob, FlushJob, Allocate, WriteFile, Goto, InFlight,
                      Elsewhere, session
  <1>6. CASE CheckRisk(r)
    <2>1. \E x : snap' = [snap EXCEPT ![r] = x]
      BY <1>6 DEF CheckRisk
    <2> QED
      BY <1>6, <2>1 DEF TypeOK, CheckRisk, Goto, InFlight, Elsewhere
  <1>7. CASE Register(r) \/ Commit(r) \/ UploadToDrive(r) \/ Finish(r)
    BY <1>1, <1>7 DEF TypeOK, Register, Commit, UploadToDrive, Finish, Goto, InFlight,
                      Elsewhere, session
  <1>8. CASE MarkSubmitted(r)
    BY <1>1, <1>8 DEF TypeOK, MarkSubmitted, PickApplication, ReadJob, SelectVersion,
                      LockSubmitted, CommitSubmitted, TakeJob, Close, Goto, InFlight,
                      Elsewhere, session
  <1> QED
    BY <1>2, <1>3, <1>4, <1>5, <1>6, <1>7, <1>8 DEF Step, Serve, Generate

LEMMA Alone ==
    ASSUME SerialInv, workers = 1, NEW r \in Requests, Step(r)
    PROVE  /\ \A q \in Requests \ {r} : /\ q \notin InFlight
                                        /\ pc[q] \in {"idle", "done"}
                                        /\ pc'[q] \in {"idle", "done"}
           /\ OneAtATime'
  <1>1. Elsewhere(r) /\ (Begin(r) \/ r \in InFlight)
    BY StepStays DEF SerialInv
  <1>2. ASSUME NEW q \in Requests \ {r}, q \in InFlight PROVE FALSE
    <2>1. InFlight = {q}
      BY <1>2 DEF SerialInv, OneAtATime
    <2>2. Cardinality(InFlight) < 1
      BY <1>1, <2>1 DEF Begin
    <2>3. Cardinality(InFlight) = 1
      BY <2>1, FS_Singleton
    <2> QED
      BY <2>2, <2>3
  <1> QED
    BY <1>1, <1>2 DEF Elsewhere, InFlight, OneAtATime

(* A step of r that writes neither rows nor files, allocates nothing, and  *)
(* has read the counter of the job it works on.                            *)
Harmless(r) ==
    /\ UNCHANGED <<latest, versions, files, drive>>
    /\ pc'[r] \notin {"allocated", "written", "committed"}
    /\ \A q \in Requests \ {r} : wLatest'[q] = wLatest[q]
    /\ \A j \in Jobs : wLatest'[r][j] # 0 =>
         pc'[r] \notin {"idle", "done"} /\ wLatest'[r][j] = wLatest[r][j]
    /\ pc'[r] \in Counting => snap'[r].latest = latest[cur'[r]]
    /\ pc'[r] = "registered" =>
         /\ pc[r] = "written" /\ cur'[r] = cur[r] /\ snap'[r] = snap[r]
         /\ stamp'[r] = stamp[r] /\ wLatest'[r] = wLatest[r]

LEMMA HarmlessSerial ==
    ASSUME SerialInv, workers = 1, NEW r \in Requests, Step(r), Harmless(r)
    PROVE  Counters' /\ Kept' /\ DriveTells'
  <1> Counters /\ Kept /\ DriveTells /\ TypeOK
    BY DEF SerialInv, IInv
  <1>1. \A q \in Requests \ {r} : q \notin InFlight /\ pc'[q] \in {"idle", "done"}
    BY Alone
  <1>2. \A q \in Requests \ {r}, j \in Jobs : wLatest'[q][j] = 0
    BY <1>1 DEF Counters, HoldsApp, Harmless
  <1>3. \A j \in Jobs : HoldsApp(r, j)' => (r \in InFlight)' /\ latest'[j] < wLatest'[r][j]
    BY DEF Counters, HoldsApp, Harmless, InFlight
  <1>4. Counters'
    <2>1. pc'[r] \in Counting => snap'[r].latest = latest'[cur'[r]]
      BY DEF Harmless
    <2>2. pc'[r] \in {"allocated", "written", "registered"} =>
            wLatest'[r][cur'[r]] = NextNumber(r)'
      BY DEF Harmless, Counters, NextNumber
    <2>3. \A v \in versions' : v.number <= latest'[v.job]
      BY DEF Harmless, Counters
    <2> QED
      BY <1>1, <1>2, <1>3, <2>1, <2>2, <2>3 DEF Counters, HoldsApp, Counting
  <1>5. Kept'
    <2>1. pc'[r] \in {"written", "registered", "committed"} => Mine(r)' \in files'
      BY DEF Harmless, Kept, Mine, Document, NextNumber
    <2>2. \A v \in versions' : OnDisk(v)'
      BY DEF Harmless, Kept, OnDisk
    <2> QED
      BY <1>1, <2>1, <2>2 DEF Harmless, Kept
  <1>6. DriveTells'
    BY DEF Harmless, DriveTells
  <1> QED
    BY <1>4, <1>5, <1>6

LEMMA AbortHarmless ==
    ASSUME IInv, NEW r \in Requests, Abort(r) \/ Fail(r)
    PROVE  Harmless(r)
  <1>1. CASE Abort(r)
    BY <1>1 DEF IInv, TypeOK, Abort, Close, Discard, Clean, Goto, Harmless, Counting, db
  <1>2. CASE Goto(r, "next") /\ UNCHANGED <<db, files, drive, session, writes>>
    BY <1>2 DEF IInv, TypeOK, Goto, Harmless, Counting, db, session, writes
  <1> QED
    BY <1>1, <1>2 DEF Fail

LEMMA HarmlessSteps ==
    ASSUME SerialInv, workers = 1, NEW r \in Requests, Step(r), ~CheckRisk(r),
           ~Allocate(r), ~WriteFile(r), ~Commit(r), ~UploadToDrive(r)
    PROVE  Harmless(r)
  <1> IInv /\ TypeOK /\ Counters
    BY DEF SerialInv, IInv
  <1>1. CASE Abort(r) \/ Fail(r)
    BY <1>1, AbortHarmless
  <1>2. CASE Begin(r)
    <2>1. r \notin InFlight
      BY <1>2 DEF Begin, InFlight
    <2> QED
      BY <1>2, <2>1 DEF TypeOK, Begin, Goto, Harmless, Counting, db, writes
  <1>3. CASE Load(r)
    BY <1>3 DEF TypeOK, Load, Goto, Harmless, Counting, db, writes
  <1>4. CASE FlushJob(r) /\ ~Abort(r)
    BY <1>4 DEF TypeOK, FlushJob, Goto, Harmless, Counters, Counting, db, session
  <1>5. CASE Register(r) /\ ~Fail(r) /\ ~Abort(r)
    BY <1>5 DEF TypeOK, Register, Goto, Harmless, Counters, Counting, db, session
  <1>6. CASE PickApplication(r) \/ ReadJob(r) \/ LockSubmitted(r)
    BY <1>6 DEF TypeOK, PickApplication, ReadJob, LockSubmitted, Goto, Harmless, Counting,
                db, session, writes
  <1>7. CASE SelectVersion(r) /\ ~Abort(r)
    BY <1>7 DEF TypeOK, SelectVersion, Goto, Harmless, Counting, db, writes
  <1>8. CASE CommitSubmitted(r)
    BY <1>8 DEF TypeOK, CommitSubmitted, Close, Discard, Clean, Goto, Harmless, Counting
  <1> QED
    BY <1>1, <1>2, <1>3, <1>4, <1>5, <1>6, <1>7, <1>8
       DEF Step, Serve, Generate, MarkSubmitted, DeadlockVictim, Refuse, CheckFails, Finish

(* The commit of a company link takes along the counters that failed jobs  *)
(* of the batch have left pending: they are ahead, so nothing falls        *)
(* behind.                                                                 *)
LEMMA CheckRiskSerial ==
    ASSUME SerialInv, workers = 1, NEW r \in Requests, CheckRisk(r)
    PROVE  Counters' /\ Kept' /\ DriveTells'
  <1> IInv /\ TypeOK /\ Counters /\ Kept /\ DriveTells /\ Step(r)
    BY DEF SerialInv, IInv, Step, Serve, Generate
  <1> DEFINE j == cur[r]
  <1>1. /\ pc[r] = "loaded" /\ pc' = [pc EXCEPT ![r] = "checked"] /\ pc'[r] = "checked"
        /\ UNCHANGED <<versions, files, drive, cur, stamp>> /\ j \in Jobs
    BY DEF TypeOK, CheckRisk, Goto
  <1>2. \A q \in Requests \ {r} : q \notin InFlight /\ pc'[q] \in {"idle", "done"}
    BY Alone
  <1>3. CASE UNCHANGED <<jobState, appState, latest, writes>>
                /\ snap' = [snap EXCEPT ![r] = SeesApplication(snap[r], j)]
    <2>1. snap'[r].latest = latest[j]
      BY <1>1, <1>3 DEF TypeOK, SeesApplication, Snapshot
    <2>2. Harmless(r)
      BY <1>1, <1>3, <2>1 DEF Harmless, writes
    <2> QED
      BY <2>2, HarmlessSerial
  <1>4. CASE /\ latest' = LatestAfter(r) /\ Discard(r)
             /\ snap' = [snap EXCEPT ![r] = [jobState |-> jobState'[j],
                                             appState |-> appState'[j],
                                             latest |-> latest'[j]]]
    <2>1. snap'[r].latest = latest'[j]
      BY <1>4 DEF TypeOK
    <2>2. \A i \in Jobs : latest[i] \in Nat /\ latest'[i] \in Nat /\ latest[i] <= latest'[i]
      <3>1. \A i \in Jobs : latest[i] \in Nat /\ wLatest[r][i] \in Nat
        BY DEF TypeOK
      <3> QED
        BY <1>4, <3>1 DEF LatestAfter, Counters
    <2>3. \A v \in versions : v.number \in Nat /\ v.job \in Jobs
      BY DEF TypeOK, Row
    <2>4. \A q \in Requests, i \in Jobs : wLatest'[q][i] = 0
      BY <1>2, <1>4 DEF TypeOK, Discard, Clean, Counters, HoldsApp
    <2>5. Counters'
      <3>1. \A v \in versions' : v.number <= latest'[v.job]
        BY <1>1, <2>2, <2>3 DEF Counters
      <3> QED
        BY <1>1, <1>2, <2>1, <2>4, <3>1 DEF Counters, HoldsApp, Counting
    <2>6. Kept' /\ DriveTells'
      BY <1>1, <1>2 DEF Kept, OnDisk, DriveTells
    <2> QED
      BY <2>5, <2>6
  <1> QED
    BY <1>3, <1>4 DEF CheckRisk

LEMMA AllocateSerial ==
    ASSUME SerialInv, workers = 1, NEW r \in Requests, Allocate(r)
    PROVE  Counters' /\ Kept' /\ DriveTells'
  <1> IInv /\ TypeOK /\ Counters /\ Kept /\ DriveTells /\ Step(r)
    BY DEF SerialInv, IInv, Step, Serve, Generate
  <1> DEFINE j == cur[r]
  <1>1. /\ pc[r] = "flushed" /\ pc'[r] = "allocated" /\ j \in Jobs
        /\ wLatest' = [wLatest EXCEPT ![r][j] = NextNumber(r)]
        /\ UNCHANGED <<latest, versions, files, drive, cur, snap, stamp>>
    BY DEF TypeOK, Allocate, Goto, db, session
  <1>2. \A q \in Requests \ {r} : q \notin InFlight /\ pc'[q] \in {"idle", "done"}
    BY Alone
  <1>3. /\ snap[r].latest = latest[j] /\ latest[j] \in Nat
        /\ NextNumber(r) = latest[j] + 1 /\ NextNumber(r)' = NextNumber(r)
    BY <1>1 DEF TypeOK, Counters, Counting, NextNumber
  <1>4. /\ wLatest'[r][j] = NextNumber(r)
        /\ \A i \in Jobs \ {j} : wLatest'[r][i] = wLatest[r][i]
        /\ \A q \in Requests \ {r} : wLatest'[q] = wLatest[q]
    BY <1>1 DEF TypeOK
  <1>5. \A i \in Jobs : HoldsApp(r, i)' => latest'[i] < wLatest'[r][i]
    BY <1>1, <1>3, <1>4 DEF Counters, HoldsApp
  <1>6. \A q \in Requests \ {r}, i \in Jobs : ~HoldsApp(q, i)'
    BY <1>2, <1>4 DEF Counters, HoldsApp
  <1>7. (r \in InFlight)'
    BY <1>1 DEF InFlight
  <1>8. Counters'
    <2>1. \A v \in versions' : v.number <= latest'[v.job]
      BY <1>1 DEF Counters
    <2>2. snap'[r].latest = latest'[cur'[r]] /\ wLatest'[r][cur'[r]] = NextNumber(r)'
      BY <1>1, <1>3, <1>4
    <2> QED
      BY <1>2, <1>5, <1>6, <1>7, <2>1, <2>2 DEF Counters, Counting
  <1>9. Kept' /\ DriveTells'
    BY <1>1, <1>2 DEF Kept, OnDisk, DriveTells
  <1> QED
    BY <1>8, <1>9

(* The number of a new packet is above those of all registered versions of *)
(* the job, so that its file overwrites none of theirs.                    *)
LEMMA WriteFileSerial ==
    ASSUME SerialInv, workers = 1, NEW r \in Requests, WriteFile(r)
    PROVE  Counters' /\ Kept' /\ DriveTells'
  <1> IInv /\ TypeOK /\ Counters /\ Kept /\ DriveTells /\ Step(r)
    BY DEF SerialInv, IInv, Step, Serve, Generate
  <1>1. PICK s \in Stamps :
          /\ files' = {f \in files : ~SamePath(f, Document(r, s))} \union {Document(r, s)}
          /\ stamp' = [stamp EXCEPT ![r] = s]
    BY DEF WriteFile
  <1>2. /\ pc[r] = "allocated" /\ pc'[r] = "written" /\ stamp'[r] = s
        /\ UNCHANGED <<latest, versions, drive, cur, snap, wLatest>>
    BY <1>1 DEF TypeOK, WriteFile, Goto, db, writes
  <1>3. \A q \in Requests \ {r} : q \notin InFlight /\ pc'[q] \in {"idle", "done"}
    BY Alone
  <1>4. Mine(r)' = Document(r, s)
    BY <1>2 DEF Mine, Document, NextNumber
  <1>5. Document(r, s).job = cur[r] /\ Document(r, s).number = latest[cur[r]] + 1
    BY <1>2 DEF Counters, Counting, Document, NextNumber
  <1>6. \A v \in versions, f \in files :
          SamePath(f, v) => ~SamePath(f, Document(r, s))
    <2>1. \A v \in versions : v.number \in Nat /\ latest[v.job] \in Nat
      BY DEF TypeOK, Row
    <2> QED
      BY <1>5, <2>1 DEF Counters, SamePath
  <1>7. Kept'
    <2>1. \A v \in versions : OnDisk(v)'
      BY <1>1, <1>6 DEF Kept, OnDisk
    <2> QED
      BY <1>1, <1>2, <1>3, <1>4, <2>1 DEF Kept
  <1>8. Counters'
    <2>1. \A q \in Requests, i \in Jobs : HoldsApp(q, i)' =>
            q = r /\ latest'[i] < wLatest'[q][i]
      BY <1>2, <1>3 DEF Counters, HoldsApp
    <2>2. /\ snap'[r].latest = latest'[cur'[r]] /\ wLatest'[r][cur'[r]] = NextNumber(r)'
          /\ \A v \in versions' : v.number <= latest'[v.job]
          /\ (r \in InFlight)'
      BY <1>2 DEF Counters, Counting, NextNumber, InFlight
    <2> QED
      BY <1>3, <2>1, <2>2 DEF Counters, Counting
  <1>9. DriveTells'
    BY <1>2 DEF DriveTells
  <1> QED
    BY <1>7, <1>8, <1>9

LEMMA CommitSerial ==
    ASSUME SerialInv, workers = 1, NEW r \in Requests, Commit(r)
    PROVE  Counters' /\ Kept' /\ DriveTells'
  <1> IInv /\ TypeOK /\ Counters /\ Kept /\ DriveTells /\ Step(r)
    BY DEF SerialInv, IInv, Step, Serve, Generate
  <1>1. /\ pc[r] = "registered" /\ pc'[r] = "committed"
        /\ versions' = versions \union {Mine(r)} /\ latest' = LatestAfter(r) /\ Discard(r)
        /\ UNCHANGED <<files, drive, cur, snap, stamp>>
    BY DEF TypeOK, IInv, PendingRow, Commit, Mine, Goto, session
  <1>2. \A q \in Requests \ {r} : q \notin InFlight /\ pc'[q] \in {"idle", "done"}
    BY Alone
  <1>3. \A i \in Jobs : /\ latest[i] \in Nat /\ wLatest[r][i] \in Nat
                        /\ latest'[i] \in Nat /\ latest[i] <= latest'[i]
    <2>1. \A i \in Jobs : latest[i] \in Nat /\ wLatest[r][i] \in Nat
      BY DEF TypeOK
    <2> QED
      BY <1>1, <2>1 DEF LatestAfter, Counters
  <1>4. Mine(r).job = cur[r] /\ Mine(r).number = NextNumber(r) /\ cur[r] \in Jobs
        /\ NextNumber(r) \in Nat
    BY DocumentType DEF TypeOK, Mine
  <1>5. latest'[cur[r]] = NextNumber(r)
    BY <1>1, <1>4 DEF IInv, LocksHeld, LatestAfter, Counters
  <1>6. \A v \in versions' : v.number <= latest'[v.job]
    <2>1. \A v \in versions : v.number \in Nat /\ v.job \in Jobs
      BY DEF TypeOK, Row
    <2>2. \A v \in versions : v.number <= latest'[v.job]
      BY <1>3, <2>1 DEF Counters
    <2> QED
      BY <1>1, <1>4, <1>5, <2>2
  <1>7. \A q \in Requests, i \in Jobs : wLatest'[q][i] = 0
    BY <1>1, <1>2 DEF TypeOK, Discard, Clean, Counters, HoldsApp
  <1>8. Counters'
    BY <1>1, <1>2, <1>6, <1>7 DEF Counters, HoldsApp, Counting
  <1>9. Mine(r) \in files /\ Mine(r)' = Mine(r)
    BY <1>1 DEF Kept, Mine, Document, NextNumber
  <1>10. Kept'
    <2>1. \A v \in versions' : OnDisk(v)'
      BY <1>1, <1>9 DEF Kept, OnDisk, SamePath
    <2> QED
      BY <1>1, <1>2, <1>9, <2>1 DEF Kept
  <1>11. DriveTells'
    BY <1>1 DEF DriveTells
  <1> QED
    BY <1>8, <1>10, <1>11

(* The file that is uploaded is the one that the version was registered    *)
(* with.                                                                   *)
LEMMA UploadSerial ==
    ASSUME SerialInv, workers = 1, NEW r \in Requests, UploadToDrive(r)
    PROVE  Counters' /\ Kept' /\ DriveTells'
  <1> IInv /\ TypeOK /\ Counters /\ Kept /\ DriveTells /\ OnePerPath /\ Step(r)
    BY DEF SerialInv, IInv, Step, Serve, Generate
  <1>1. /\ pc[r] = "committed" /\ pc'[r] = "next"
        /\ UNCHANGED <<latest, versions, files, cur, snap, stamp, wLatest>>
    BY DEF TypeOK, UploadToDrive, Goto, db, session, writes
  <1>2. \A q \in Requests \ {r} : q \notin InFlight /\ pc'[q] \in {"idle", "done"}
    BY Alone
  <1>3. Counters'
    <2>1. \A q \in Requests, i \in Jobs : HoldsApp(q, i)' =>
            q = r /\ latest'[i] < wLatest'[q][i]
      BY <1>1, <1>2 DEF Counters, HoldsApp
    <2>2. (\A v \in versions' : v.number <= latest'[v.job]) /\ (r \in InFlight)'
      BY <1>1 DEF Counters, InFlight
    <2> QED
      BY <1>1, <1>2, <2>1, <2>2 DEF Counters, Counting
  <1>4. Kept'
    BY <1>1, <1>2 DEF Kept, OnDisk
  <1>5. DriveTells'
    <2>1. CASE UNCHANGED drive
      BY <1>1, <2>1 DEF DriveTells
    <2>2. ASSUME NEW f \in files, SamePath(f, Mine(r)),
                 drive' = drive \union {[job |-> f.job, number |-> f.number,
                                         content |-> f.content]}
          PROVE  DriveTells'
      <3>1. Mine(r) \in versions /\ Mine(r) \in files
        BY <1>1 DEF Kept
      <3>2. f = Mine(r)
        BY <2>2, <3>1 DEF OnePerPath
      <3> QED
        BY <1>1, <2>2, <3>1, <3>2 DEF DriveTells
    <2> QED
      BY <2>1, <2>2 DEF UploadToDrive, Mine
  <1> QED
    BY <1>3, <1>4, <1>5

LEMMA NextOnePerPath ==
    ASSUME IInv, OnePerPath, [Next]_vars
    PROVE  OnePerPath'
  <1>1. ASSUME NEW r \in Requests, WriteFile(r) PROVE OnePerPath'
    BY <1>1 DEF WriteFile, OnePerPath, SamePath
  <1>2. CASE UNCHANGED files
    BY <1>2 DEF OnePerPath
  <1>3. ASSUME NEW r \in Requests, Abort(r) \/ Fail(r) PROVE UNCHANGED files
    BY <1>3 DEF Abort, Fail
  <1>4. ASSUME NEW r \in Requests, Generate(r), ~WriteFile(r) PROVE UNCHANGED files
    BY <1>3, <1>4 DEF Generate, Load, CheckRisk, FlushJob, Allocate, Register, Commit,
                      UploadToDrive, Finish
  <1>5. ASSUME NEW r \in Requests, Step(r), ~WriteFile(r) PROVE UNCHANGED files
    BY <1>3, <1>4, <1>5 DEF Step, Begin, Serve, Refuse, CheckFails, DeadlockVictim,
                      MarkSubmitted, PickApplication, ReadJob, SelectVersion,
                      LockSubmitted, CommitSubmitted
  <1>6. CASE (\E j \in Jobs : JobMovesOn(j)) \/ Crash \/ UNCHANGED vars
    BY <1>2, <1>6 DEF JobMovesOn, Crash, vars
  <1> QED
    BY <1>1, <1>2, <1>5, <1>6 DEF Next, Step

LEMMA InitSerialInv == Init => SerialInv
  <1> SUFFICES ASSUME Init PROVE SerialInv
    OBVIOUS
  <1>1. IInv
    BY InitIInv
  <1>2. OnePerPath /\ OneAtATime /\ Kept /\ DriveTells
    BY DEF Init, OnePerPath, OneAtATime, InFlight, Kept, DriveTells
  <1>3. Counters
    BY DEF Init, Counters, Counting, HoldsApp, Clean
  <1> QED
    BY <1>1, <1>2, <1>3 DEF SerialInv

LEMMA NextSerialInv == SerialInv /\ [Next]_vars => SerialInv'
  <1> SUFFICES ASSUME SerialInv, [Next]_vars, workers' = 1
               PROVE  OneAtATime' /\ Counters' /\ Kept' /\ DriveTells'
    BY NextIInv, NextOnePerPath DEF SerialInv
  <1> IInv
    BY DEF SerialInv
  <1>1. workers = 1
    BY StepStays DEF Next, Step, JobMovesOn, Crash, vars, session
  <1>2. CASE \E r \in Requests : Step(r)
    BY <1>1, <1>2, Alone, HarmlessSteps, HarmlessSerial, CheckRiskSerial, AllocateSerial,
       WriteFileSerial, CommitSerial, UploadSerial
  <1>3. CASE Crash
    <2>1. /\ UNCHANGED <<latest, versions, files, drive>>
          /\ \A r \in Requests : /\ pc'[r] \in {"idle", "done"}
                                 /\ wLatest'[r] = Clean(0)
      BY <1>3 DEF Crash, InFlight, db
    <2>2. OneAtATime'
      BY <2>1 DEF OneAtATime, InFlight
    <2>3. Counters'
      BY <1>1, <2>1 DEF SerialInv, Counters, Counting, HoldsApp, Clean
    <2>4. Kept' /\ DriveTells'
      BY <1>1, <2>1 DEF SerialInv, Kept, OnDisk, DriveTells
    <2> QED
      BY <2>2, <2>3, <2>4
  <1>4. CASE (\E j \in Jobs : JobMovesOn(j)) \/ UNCHANGED vars
    <2>1. UNCHANGED <<latest, versions, files, drive, pc, cur, snap, stamp, wLatest>>
      BY <1>4 DEF JobMovesOn, vars, db, session, writes
    <2> QED
      BY <1>1, <2>1 DEF SerialInv, OneAtATime, InFlight, Counters, HoldsApp, NextNumber,
         Kept, Mine, Document, OnDisk, DriveTells
  <1> QED
    BY <1>2, <1>3, <1>4 DEF Next, Step

(* One request at a time, whatever fails, dies or is left pending by a     *)
(* failed job of a batch, every registered version finds its own document  *)
(* on disk and the Drive copy recorded for it is that document             *)
(* (generate_packet, export_packet_to_drive).                              *)
THEOREM CopiesIntact == Spec => []CopiesIntactWhenSerial
  <1>1. SerialInv => CopiesIntactWhenSerial
    BY DEF SerialInv, CopiesIntactWhenSerial, Kept, DriveTells
  <1>2. Spec => []SerialInv
    BY InitSerialInv, NextSerialInv, PTL DEF Spec
  <1> QED
    BY <1>1, <1>2, PTL

=============================================================================
