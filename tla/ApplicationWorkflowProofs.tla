---------------------- MODULE ApplicationWorkflowProofs ----------------------
(***************************************************************************)
(* Proofs about ApplicationWorkflow for every set of postings, however     *)
(* they are related, and every set of requests.                            *)
(***************************************************************************)
EXTENDS ApplicationWorkflow, FiniteSetTheorems, TLAPS

(* What the actions make of an application.                                *)
LEMMA Targets ==
    /\ "generate" \in DOMAIN Target
    /\ \A k \in DOMAIN Target : Target[k] \in ApplicationStates
    /\ "NONE" \notin ApplicationStates
  BY DEF Target, ApplicationStates

LEMMA NoRequestType == NoRequest \in Request
  BY WorkflowAssumption, Targets DEF NoRequest, Request, NoNote, Note, States, Date

LEMMA NewRequestType ==
    ASSUME TypeOK, NEW k \in DOMAIN Target, NEW j \in Jobs
    PROVE  NewRequest(k, j) \in Request
  BY DEF TypeOK, NewRequest, Request, NoNote, Note, States, Date

LEMMA InitTypeOK == Init => TypeOK
  BY NoRequestType, WorkflowAssumption DEF Init, TypeOK, States, Date, Days

(* A step that ends a request, or only moves it on.                        *)
PCs == {"idle", "check", "ready", "committed", "refreshed", "read", "recorded", "done"}

LEMMA AnswerType ==
    ASSUME TypeOK, NEW r \in Requests, Answer(r)
    PROVE  pc' \in [Requests -> PCs] /\ req' \in [Requests -> Request]
  BY NoRequestType DEF TypeOK, Answer, Goto, PCs

LEMMA GotoType ==
    ASSUME TypeOK, NEW r \in Requests, NEW label \in PCs, Goto(r, label)
    PROVE  pc' \in [Requests -> PCs]
  BY DEF TypeOK, Goto, PCs

LEMMA WrittenType ==
    ASSUME TypeOK, NEW r \in Requests
    PROVE  Written(r) \in States /\ (app[req[r].job] # "NONE" => Written(r) # "NONE")
  BY Targets DEF TypeOK, Written, Request, States

-----------------------------------------------------------------------------
(* What a request that is under way has behind it: after its commit its    *)
(* application exists, its notes are no invention, and the ledger rows it  *)
(* has found are those of its application.                                 *)
Saved == {"committed", "refreshed", "read"}

Session(r) ==
    LET s == req[r] IN
    /\ s.state # "NONE" => app[s.job] # "NONE"
    /\ pc[r] \in {"check", "ready"} /\ s.kind # "generate" => s.state # "NONE"
    /\ pc[r] \in Saved => app[s.job] # "NONE"
    /\ pc[r] \in {"refreshed", "read"} => s.note.status # "NONE"
    /\ pc[r] \in Saved \union {"recorded"} /\ s.kind = "mark_submitted" =>
         sentOn[s.job] # Never
    /\ s.note.submitted # Never => sentOn[s.job] # Never
    /\ \A old \in s.found : old.job = s.job

Reported ==
    /\ \A row \in ledger : row.submitted # Never => sentOn[row.job] # Never
    /\ \A j \in Jobs : <<j, "mark_submitted">> \in timeline => sentOn[j] # Never

IInv ==
    /\ TypeOK
    /\ \A r \in Requests : Session(r)
    /\ Reported

Listed(j) == \E row \in ledger : row.job = j

(* The serial part: one request at a time.                                 *)
OneAtATime == workers = 1 => \A r, q \in InFlight : r = q

Saving(j) == \E r \in Requests : pc[r] \in Saved /\ req[r].job = j

(* An application is in the ledger unless the request that saved it is     *)
(* still to record it or died before; a submission has been preceded by    *)
(* the commit of its packet, so that it takes two deaths to leave it out.  *)
ListedUnlessDied ==
    workers = 1 => \A j \in Jobs : ~Listed(j) =>
      /\ app[j] # "NONE" => crashes >= 1 \/ Saving(j)
      /\ sentOn[j] # Never => crashes >= 2 \/ (crashes >= 1 /\ Saving(j))

(* A submission that passed the check is not of a position in the ledger.  *)
Passed ==
    workers = 1 => \A r \in Requests, k \in Jobs :
      /\ pc[r] = "ready" /\ req[r].kind = "mark_submitted"
      /\ k # req[r].job /\ Exact(req[r].job, k) /\ Listed(k)
      => override[req[r].job] # Never

SerialInv ==
    /\ IInv
    /\ OneAtATime
    /\ ListedUnlessDied
    /\ Passed
    /\ NoDoubleSubmissionWhenSerial

(* The ledger row of an application whose request is not between commit    *)
(* and entry tells its state.                                              *)
Follows(j) ==
    \E row \in ledger : row.job = j /\ row.status = app[j] /\ row.submitted = sentOn[j]

Undisturbed == workers = 1 /\ crashes = 0
Current(r) == req[r].note = [status |-> app[req[r].job], submitted |-> sentOn[req[r].job]]

OneRowEach == \A x, y \in ledger : x.job = y.job => x = y

AllFollow == \A j \in Jobs : app[j] # "NONE" /\ ~Saving(j) => Follows(j)

NotesCurrent ==
    \A r \in Requests :
      /\ pc[r] \in {"refreshed", "read"} => Current(r)
      /\ pc[r] = "read" => req[r].found = RowsOf(req[r].job)

Submitting(j) ==
    \E r \in Requests : /\ pc[r] \in Saved \union {"recorded"}
                        /\ req[r].job = j /\ req[r].kind = "mark_submitted"

AllTold ==
    \A j \in Jobs : sentOn[j] # Never =>
      <<j, "mark_submitted">> \in timeline \/ Submitting(j)

LedgerInv ==
    /\ IInv
    /\ OneAtATime
    /\ Undisturbed => OneRowEach /\ AllFollow /\ NotesCurrent /\ AllTold

(* The row that an update writes.                                          *)
Updated(r, old, row) ==
    LET note == req[r].note IN
    [row EXCEPT
       !.status = IF note.status = old.status THEN @ ELSE note.status,
       !.submitted = IF note.submitted \in {Never, old.submitted} THEN @
                     ELSE note.submitted]
Updates(r, old, row) ==
    /\ row.job = old.job /\ row.by = old.by
    /\ ledger' = (ledger \ {row}) \union {Updated(r, old, row)}

LEMMA UpdateOfRow ==
    ASSUME NEW r \in Requests, UpdateLedger(r)
    PROVE  \E old \in req[r].found, row \in ledger : Updates(r, old, row)
  BY DEF UpdateLedger, Updates, Updated

LEMMA ServeTypeOK ==
    ASSUME IInv, NEW r \in Requests, Serve(r)
    PROVE  TypeOK'
  <1> DEFINE j == req[r].job
  <1> TypeOK
    BY DEF IInv
  <1>0. req[r] \in Request /\ j \in Jobs /\ req[r].kind \in DOMAIN Target
    BY DEF TypeOK, Request
  <1>1. CASE Check(r)
    <2>1. CASE Answer(r)
      BY <1>1, <2>1, AnswerType DEF Check, TypeOK, PCs, env
    <2>2. CASE ~Answer(r)
      <3>1. /\ Goto(r, "ready")
            /\ \/ req' = [req EXCEPT ![r] = NewRequest("generate", j)]
               \/ req' = req
            /\ UNCHANGED <<app, packets, sentOn, ledger, env, timeline>>
        BY <1>1, <2>2 DEF Check
      <3>2. NewRequest("generate", j) \in Request
        BY <1>0, NewRequestType, Targets
      <3>3. req' \in [Requests -> Request]
        BY <3>1, <3>2 DEF TypeOK
      <3> QED
        BY <3>1, <3>3, GotoType DEF TypeOK, PCs, env
    <2> QED
      BY <2>1, <2>2
  <1>2. CASE CommitAction(r)
    <2>1. app' \in [Jobs -> States] /\ sentOn' \in [Jobs -> Date]
      BY <1>0, <1>2, WrittenType DEF CommitAction, TypeOK, Date
    <2> QED
      BY <1>2, <2>1, GotoType DEF CommitAction, TypeOK, PCs, env
  <1>3. CASE CommitPacket(r)
    <2>1. CASE Answer(r) /\ UNCHANGED <<app, packets>>
      BY <1>3, <2>1, AnswerType DEF CommitPacket, TypeOK, PCs, env
    <2>2. CASE ~(Answer(r) /\ UNCHANGED <<app, packets>>)
      <3>1. app' \in [Jobs -> States] /\ packets' \in [Jobs -> Nat]
        BY <1>0, <1>3, <2>2, WrittenType DEF CommitPacket, TypeOK
      <3> QED
        BY <1>3, <2>2, <3>1, GotoType DEF CommitPacket, TypeOK, PCs, env
    <2> QED
      BY <2>1, <2>2
  <1>4. CASE Refresh(r)
    <2>1. [status |-> app[j], submitted |-> sentOn[j]] \in Note
      BY <1>0 DEF TypeOK, Note
    <2>2. req' \in [Requests -> Request]
      BY <1>0, <1>4, <2>1 DEF Refresh, TypeOK, Request
    <2> QED
      BY <1>4, <2>2, GotoType DEF Refresh, TypeOK, PCs, env
  <1>5. CASE ReadLedger(r)
    <2>1. CASE Answer(r)
      BY <1>5, <2>1, AnswerType DEF ReadLedger, TypeOK, PCs, env
    <2>2. CASE ~Answer(r)
      <3>1. RowsOf(j) \in SUBSET LedgerRow
        BY DEF RowsOf, TypeOK
      <3>2. req' \in [Requests -> Request]
        BY <1>0, <1>5, <2>2, <3>1 DEF ReadLedger, TypeOK, Request
      <3> QED
        BY <1>5, <2>2, <3>2, GotoType DEF ReadLedger, TypeOK, PCs, env
    <2> QED
      BY <2>1, <2>2
  <1>6. CASE InsertLedger(r)
    <2>1. req[r].note \in [status : ApplicationStates, submitted : Date]
      BY <1>0, <1>6 DEF IInv, Session, InsertLedger, Request, Note, States
    <2>2. ledger' \subseteq LedgerRow
      BY <1>0, <1>6, <2>1 DEF InsertLedger, TypeOK, LedgerRow
    <2> QED
      BY <1>6, <2>2, GotoType DEF InsertLedger, TypeOK, PCs, env
  <1>7. CASE UpdateLedger(r)
    <2>1. req[r].note \in [status : ApplicationStates, submitted : Date]
      BY <1>0, <1>7 DEF IInv, Session, UpdateLedger, Request, Note, States
    <2>2. PICK old \in req[r].found, row \in ledger : Updates(r, old, row)
      BY <1>7, UpdateOfRow
    <2>3. ledger' \subseteq LedgerRow
      BY <2>1, <2>2 DEF Updates, Updated, TypeOK, LedgerRow
    <2> QED
      BY <1>7, <2>3, GotoType DEF UpdateLedger, TypeOK, PCs, env
  <1>8. CASE RecordTimeline(r)
    <2>1. timeline' \subseteq Jobs \X (DOMAIN Target \union {"assisted_open"})
      BY <1>0, <1>8 DEF RecordTimeline, TypeOK
    <2> QED
      BY <1>8, <2>1, AnswerType DEF RecordTimeline, TypeOK, PCs, env
  <1> QED
    BY <1>1, <1>2, <1>3, <1>4, <1>5, <1>6, <1>7, <1>8 DEF Serve

(* A step of a request leaves the others alone.                            *)
OthersUntouched(r) ==
    \A q \in Requests \ {r} : pc'[q] = pc[q] /\ req'[q] = req[q]

LEMMA ServeTouchesOnlyItself ==
    ASSUME TypeOK, NEW r \in Requests, Arrive(r) \/ Serve(r)
    PROVE  OthersUntouched(r)
  BY DEF TypeOK, OthersUntouched, Arrive, Serve, Check, CommitAction, CommitPacket, Refresh,
         ReadLedger, InsertLedger, UpdateLedger, RecordTimeline, Goto, Answer

(* The environment changes no application and no request.                  *)
Environment ==
    \/ \E j \in Jobs : Override(j) \/ AssistedOpen(j) \/ Representation(j)
    \/ NextDay

LEMMA EnvironmentTypeOK ==
    ASSUME TypeOK, Environment
    PROVE  /\ TypeOK'
           /\ UNCHANGED <<app, packets, sentOn, ledger, crashes, workers, pc, req>>
           /\ \A j \in Jobs : /\ <<j, "mark_submitted">> \in timeline'
                                   => <<j, "mark_submitted">> \in timeline
                              /\ <<j, "mark_submitted">> \in timeline
                                   => <<j, "mark_submitted">> \in timeline'
                              /\ override[j] # Never => override'[j] # Never
  <1>0. Never \notin Nat /\ Days \subseteq Nat
    BY IdentityAssumption DEF Days
  <1>2. CASE \E j \in Jobs : Override(j)
    <2>1. PICK j \in Jobs : Override(j)
      BY <1>2
    <2>2. /\ override' = [override EXCEPT ![j] = today]
          /\ known' = [known EXCEPT ![j] = {row.job : row \in ledger}]
          /\ UNCHANGED <<app, packets, sentOn, ledger, conflict, timeline, today,
                         crashes, workers, pc, req>>
      BY <2>1 DEF Override
    <2>3. {row.job : row \in ledger} \subseteq Jobs
      BY DEF TypeOK, LedgerRow
    <2>4. override' \in [Jobs -> Date] /\ known' \in [Jobs -> SUBSET Jobs]
      BY <2>2, <2>3 DEF TypeOK, Date
    <2>5. \A k \in Jobs : override[k] # Never => override'[k] # Never
      BY <1>0, <2>2 DEF TypeOK
    <2>. QED
      BY <2>2, <2>4, <2>5 DEF TypeOK
  <1>3. CASE \E j \in Jobs : AssistedOpen(j)
    BY <1>0, <1>3 DEF AssistedOpen, TypeOK, env
  <1>4. CASE \E j \in Jobs : Representation(j)
    BY <1>0, <1>4 DEF Representation, TypeOK
  <1>5. CASE NextDay
    BY <1>0, <1>5, WorkflowAssumption DEF NextDay, TypeOK, Days
  <1> QED
    BY <1>2, <1>3, <1>4, <1>5 DEF Environment

LEMMA CrashTypeOK ==
    ASSUME TypeOK, Crash
    PROVE  TypeOK'
  BY NoRequestType, WorkflowAssumption DEF TypeOK, Crash

(* No application, submission, override or ledger entry is taken back.     *)
LEMMA NothingTakenBack ==
    ASSUME IInv, [Next]_vars
    PROVE  \A j \in Jobs : /\ app[j] # "NONE" => app'[j] # "NONE"
                           /\ sentOn[j] # Never => sentOn'[j] # Never
                           /\ override[j] # Never => override'[j] # Never
                           /\ Listed(j) => Listed(j)'
  <1> TypeOK
    BY DEF IInv
  <1>0. Never \notin Nat /\ today \in Nat
    BY IdentityAssumption DEF TypeOK, Days
  <1>1. ASSUME NEW r \in Requests, CommitAction(r) \/ CommitPacket(r)
        PROVE  \A j \in Jobs : /\ app[j] # "NONE" => app'[j] # "NONE"
                               /\ sentOn[j] # Never => sentOn'[j] # Never
    BY <1>0, <1>1, WrittenType DEF TypeOK, CommitAction, CommitPacket
  <1>2. ASSUME NEW r \in Requests, InsertLedger(r) \/ UpdateLedger(r)
        PROVE  \A j \in Jobs : Listed(j) => Listed(j)'
    <2>1. CASE InsertLedger(r)
      BY <2>1 DEF InsertLedger, Listed
    <2>2. CASE UpdateLedger(r)
      <3>1. PICK old \in req[r].found, row \in ledger : Updates(r, old, row)
        BY <2>2, UpdateOfRow
      <3>2. Updated(r, old, row).job = row.job
        BY DEF Updated, TypeOK, LedgerRow
      <3> QED
        BY <3>1, <3>2 DEF Updates, Listed
    <2> QED
      BY <1>2, <2>1, <2>2
  <1>3. ASSUME NEW r \in Requests, Arrive(r) \/ Serve(r)
        PROVE  /\ UNCHANGED env
               /\ \/ CommitAction(r) \/ CommitPacket(r) \/ UNCHANGED <<app, sentOn>>
               /\ \/ InsertLedger(r) \/ UpdateLedger(r) \/ UNCHANGED ledger
    BY <1>3 DEF Arrive, Serve, Check, CommitAction, CommitPacket, Refresh,
                ReadLedger, InsertLedger, UpdateLedger, RecordTimeline
  <1>4. CASE \E r \in Requests : Arrive(r) \/ Serve(r)
    BY <1>1, <1>2, <1>3, <1>4 DEF Listed, env
  <1>5. CASE Environment
    BY <1>5, EnvironmentTypeOK DEF Listed
  <1>6. CASE Crash \/ UNCHANGED vars
    BY <1>6 DEF Crash, Listed, vars, env
  <1> QED
    BY <1>4, <1>5, <1>6 DEF Next, Environment

-----------------------------------------------------------------------------
(* The requests that a step does not concern keep what they have behind    *)
(* them.                                                                   *)
LEMMA OthersSession ==
    ASSUME IInv, [Next]_vars, NEW q \in Requests, pc'[q] = pc[q], req'[q] = req[q]
    PROVE  Session(q)'
  <1>1. req[q].job \in Jobs
    BY DEF IInv, TypeOK, Request
  <1>2. Session(q)
    BY DEF IInv
  <1> QED
    BY <1>1, <1>2, NothingTakenBack DEF Session

LEMMA ServeSession ==
    ASSUME IInv, NEW r \in Requests, Arrive(r) \/ Serve(r)
    PROVE  Session(r)'
  <1> DEFINE j == req[r].job
  <1> TypeOK /\ Session(r) /\ Never \notin Nat /\ today \in Nat
    BY IdentityAssumption DEF IInv, TypeOK, Days
  <1>0. req[r] \in Request /\ j \in Jobs
    BY DEF TypeOK, Request
  <1>1. ASSUME Answer(r) PROVE Session(r)'
    BY <1>1 DEF TypeOK, Answer, Goto, NoRequest, NoNote, Session, Saved
  <1>2. CASE Arrive(r)
    BY <1>2 DEF TypeOK, Arrive, Goto, NewRequest, NoNote, Session, Saved
  <1>3. CASE Check(r)
    BY <1>0, <1>1, <1>3 DEF TypeOK, Check, Goto, NewRequest, NoNote, Session, Saved
  <1>4. CASE CommitAction(r)
    <2>1. app'[j] # "NONE" /\ (req[r].kind = "mark_submitted" => sentOn'[j] # Never)
      BY <1>0, <1>4, WrittenType DEF TypeOK, CommitAction, Session
    <2>2. sentOn[j] # Never => sentOn'[j] # Never
      BY <1>0, <1>4 DEF TypeOK, CommitAction
    <2> QED
      BY <1>4, <2>1, <2>2 DEF TypeOK, CommitAction, Goto, Session, Saved
  <1>5. CASE CommitPacket(r)
    <2>1. CASE Answer(r)
      BY <1>1, <2>1
    <2>2. CASE ~Answer(r)
      <3>1. app'[j] # "NONE"
        BY <1>0, <1>5, <2>2, Targets DEF TypeOK, CommitPacket, Written, Request, Session
      <3> QED
        BY <1>5, <2>2, <3>1 DEF TypeOK, CommitPacket, Goto, Session, Saved
    <2> QED
      BY <2>1, <2>2
  <1>6. CASE Refresh(r)
    BY <1>0, <1>6 DEF TypeOK, Refresh, Goto, Request, Session, Saved
  <1>7. CASE ReadLedger(r)
    <2>1. CASE Answer(r)
      BY <1>1, <2>1
    <2>2. CASE ~Answer(r)
      BY <1>0, <1>7, <2>2 DEF TypeOK, ReadLedger, RowsOf, Goto, Request, Session, Saved
    <2> QED
      BY <2>1, <2>2
  <1>8. CASE InsertLedger(r) \/ UpdateLedger(r)
    BY <1>8 DEF TypeOK, InsertLedger, UpdateLedger, Goto, Session, Saved
  <1>9. CASE RecordTimeline(r)
    BY <1>1, <1>9 DEF RecordTimeline
  <1> QED
    BY <1>2, <1>3, <1>4, <1>5, <1>6, <1>7, <1>8, <1>9 DEF Serve

LEMMA ServeReported ==
    ASSUME IInv, [Next]_vars, NEW r \in Requests, Arrive(r) \/ Serve(r)
    PROVE  Reported'
  <1> DEFINE s == req[r]
  <1> TypeOK /\ Session(r) /\ Reported
    BY DEF IInv
  <1>0. s.job \in Jobs /\ \A row \in ledger : row.job \in Jobs
    BY DEF TypeOK, Request, LedgerRow
  <1>1. \A row \in ledger' : row.submitted # Never => sentOn'[row.job] # Never
    <2>1. CASE InsertLedger(r)
      BY <1>0, <2>1 DEF InsertLedger, Reported, Session
    <2>2. CASE UpdateLedger(r)
      <3>1. PICK old \in s.found, row \in ledger : Updates(r, old, row)
        BY <2>2, UpdateOfRow
      <3>2. /\ Updated(r, old, row).job = s.job
            /\ Updated(r, old, row).submitted \in {row.submitted, s.note.submitted}
        BY <3>1 DEF Updates, Updated, TypeOK, LedgerRow, Session
      <3>3. row.submitted # Never => sentOn[s.job] # Never
        BY <3>1 DEF Updates, Session, Reported
      <3> QED
        BY <2>2, <3>1, <3>2, <3>3 DEF Updates, UpdateLedger, Reported, Session
    <2>3. CASE UNCHANGED ledger
      BY <1>0, <2>3, NothingTakenBack DEF Reported
    <2> QED
      BY <2>1, <2>2, <2>3 DEF Arrive, Serve, Check, CommitAction, CommitPacket, Refresh,
                              ReadLedger, RecordTimeline
  <1>2. \A j \in Jobs : <<j, "mark_submitted">> \in timeline' => sentOn'[j] # Never
    <2>1. CASE RecordTimeline(r)
      BY <1>0, <2>1 DEF RecordTimeline, Reported, Session, Saved
    <2>2. CASE UNCHANGED timeline
      BY <2>2, NothingTakenBack DEF Reported
    <2> QED
      BY <2>1, <2>2 DEF Arrive, Serve, Check, CommitAction, CommitPacket, Refresh,
                        ReadLedger, InsertLedger, UpdateLedger
  <1> QED
    BY <1>1, <1>2 DEF Reported

LEMMA InitIInv == Init => IInv
  BY InitTypeOK
  DEF Init, IInv, Session, Saved, Reported, NoRequest, NoNote

LEMMA ArriveTypeOK ==
    ASSUME TypeOK, NEW r \in Requests, Arrive(r)
    PROVE  TypeOK'
  <1>1. PICK k \in Kinds, j \in Jobs : req' = [req EXCEPT ![r] = NewRequest(k, j)]
    BY DEF Arrive
  <1>2. NewRequest(k, j) \in Request
    BY NewRequestType, WorkflowAssumption
  <1> QED
    BY <1>1, <1>2, GotoType DEF TypeOK, Arrive, PCs, env

LEMMA NextIInv == IInv /\ [Next]_vars => IInv'
  <1> SUFFICES ASSUME IInv, [Next]_vars PROVE IInv'
    OBVIOUS
  <1> TypeOK
    BY DEF IInv
  <1>1. CASE \E r \in Requests : Arrive(r) \/ Serve(r)
    <2>1. PICK r \in Requests : Arrive(r) \/ Serve(r)
      BY <1>1
    <2>2. TypeOK'
      BY <2>1, ArriveTypeOK, ServeTypeOK
    <2>3. ASSUME NEW q \in Requests PROVE Session(q)'
      BY <2>1, ServeSession, ServeTouchesOnlyItself, OthersSession DEF OthersUntouched
    <2> QED
      BY <2>1, <2>2, <2>3, ServeReported DEF IInv
  <1>2. CASE Environment
    <2>1. \A q \in Requests : Session(q)'
      BY <1>2, EnvironmentTypeOK, OthersSession
    <2>2. Reported'
      BY <1>2, EnvironmentTypeOK DEF IInv, Reported
    <2> QED
      BY <1>2, <2>1, <2>2, EnvironmentTypeOK DEF IInv
  <1>3. CASE Crash
    <2>1. \A q \in Requests : Session(q)'
      BY <1>3 DEF Crash, InFlight, TypeOK, NoRequest, NoNote, Session, Saved
    <2>2. Reported'
      BY <1>3 DEF Crash, IInv, Reported
    <2> QED
      BY <1>3, <2>1, <2>2, CrashTypeOK DEF IInv
  <1>4. CASE UNCHANGED vars
    BY <1>4 DEF vars, env, IInv, TypeOK, Session, Reported
  <1> QED
    BY <1>1, <1>2, <1>3, <1>4 DEF Next, Environment

LEMMA Invariance == Spec => []IInv
  BY InitIInv, NextIInv, PTL DEF Spec

(* Every variable keeps its type; the ledger's status is never that of an  *)
(* application that does not exist.                                        *)
THEOREM TypeCorrect == Spec => []TypeOK
  <1>1. IInv => TypeOK
    BY DEF IInv
  <1> QED
    BY <1>1, Invariance, PTL

(* Neither ledger nor timeline reports a submission that did not happen,   *)
(* whatever requests race and wherever the process dies.                   *)
THEOREM NothingInvented == Spec => []NoInventedSubmission
  <1>1. IInv => NoInventedSubmission
    BY DEF IInv, Reported, NoInventedSubmission
  <1> QED
    BY <1>1, Invariance, PTL

-----------------------------------------------------------------------------
(* An exact match found in the ledger is found for ever.                   *)
LEMMA RiskByMatch ==
    ASSUME NEW j \in Jobs
    PROVE  Risk(j) = "RED" <=>
             /\ ~Within(OverrideTtlDays, override[j], today)
             /\ \E row \in ledger : row.job # j /\ Exact(j, row.job)
  BY DEF Risk, Level, ExactMatches, Others

LEMMA StaysBlocked ==
    ASSUME IInv, [Next]_vars, NEW j \in Jobs, Risk(j) = "RED", override'[j] = override[j]
    PROVE  Risk(j)' = "RED"
  <1> TypeOK
    BY DEF IInv
  <1>1. PICK row \in ledger : row.job # j /\ Exact(j, row.job)
    BY RiskByMatch
  <1>2. row.job \in Jobs /\ Listed(row.job)
    BY DEF TypeOK, LedgerRow, Listed
  <1>3. \E new \in ledger' : new.job # j /\ Exact(j, new.job)
    BY <1>1, <1>2, NothingTakenBack DEF Listed
  <1>4. today' = today \/ today' = today + 1
    BY DEF Next, Arrive, Serve, Check, CommitAction, CommitPacket, Refresh, ReadLedger,
           InsertLedger, UpdateLedger, RecordTimeline, Override, AssistedOpen,
           Representation, NextDay, Crash, vars, env
  <1>5. today \in Nat /\ override[j] \in Nat \union {Never} /\ OverrideTtlDays \in Nat
    BY IdentityAssumption DEF TypeOK, Days, Date
  <1>6. ~Within(OverrideTtlDays, override[j], today)
    BY RiskByMatch
  <1>7. ~Within(OverrideTtlDays, override'[j], today')
    BY <1>4, <1>5, <1>6 DEF Within
  <1> QED
    BY <1>3, <1>7 DEF Risk, Level, ExactMatches, Others

(* A posting blocked as an exact duplicate stays blocked until the owner   *)
(* overrides it.                                                           *)
THEOREM BlockedStays == Spec => BlockedUntilOverride
  <1>1. IInv /\ [Next]_vars =>
          [\A j \in Jobs :
             Risk(j) = "RED" => Risk(j)' = "RED" \/ override'[j] # override[j]]_vars
    BY StaysBlocked
  <1> QED
    BY <1>1, Invariance, PTL DEF Spec, BlockedUntilOverride

-----------------------------------------------------------------------------
(* One request at a time.                                                  *)
LEMMA NoneInFlight ==
    ASSUME OneAtATime, workers = 1, Cardinality(InFlight) < workers
    PROVE  InFlight = {}
  <1> SUFFICES ASSUME NEW r \in InFlight PROVE FALSE
    OBVIOUS
  <1>1. InFlight = {r}
    BY DEF OneAtATime
  <1>2. Cardinality({r}) = 1
    BY FS_Singleton
  <1> QED
    BY <1>1, <1>2

LEMMA Alone ==
    ASSUME OneAtATime, workers = 1, NEW r \in Requests, Arrive(r) \/ Serve(r)
    PROVE  \A q \in Requests \ {r} : pc[q] \in {"idle", "done"}
  <1>1. CASE Arrive(r)
    BY <1>1, NoneInFlight DEF Arrive, InFlight
  <1>2. CASE Serve(r)
    BY <1>2 DEF OneAtATime, InFlight, Serve, Check, CommitAction, CommitPacket, Refresh,
                ReadLedger, InsertLedger, UpdateLedger, RecordTimeline
  <1> QED
    BY <1>1, <1>2

LEMMA StepKeepsCounters ==
    ASSUME NEW r \in Requests, Arrive(r) \/ Serve(r)
    PROVE  UNCHANGED <<override, crashes, workers>>
  BY DEF Arrive, Serve, Check, CommitAction, CommitPacket, Refresh, ReadLedger,
         InsertLedger, UpdateLedger, RecordTimeline, env

LEMMA NextOneAtATime ==
    ASSUME IInv, OneAtATime, [Next]_vars
    PROVE  OneAtATime'
  <1> TypeOK
    BY DEF IInv
  <1>1. CASE \E r \in Requests : Arrive(r) \/ Serve(r)
    <2>1. PICK r \in Requests : Arrive(r) \/ Serve(r)
      BY <1>1
    <2> QED
      BY <2>1, Alone, ServeTouchesOnlyItself, StepKeepsCounters
      DEF OneAtATime, InFlight, OthersUntouched
  <1>2. CASE Environment
    BY <1>2, EnvironmentTypeOK DEF OneAtATime, InFlight
  <1>3. CASE Crash
    BY <1>3 DEF Crash, OneAtATime, InFlight, TypeOK
  <1>4. CASE UNCHANGED vars
    BY <1>4 DEF vars, env, OneAtATime, InFlight
  <1> QED
    BY <1>1, <1>2, <1>3, <1>4 DEF Next, Environment

(* What one request has saved is in the ledger, or will be.                *)
LEMMA ServeListed ==
    ASSUME SerialInv, [Next]_vars, NEW r \in Requests, Arrive(r) \/ Serve(r)
    PROVE  ListedUnlessDied'
  <1> DEFINE j == req[r].job
  <1> SUFFICES ASSUME workers = 1, NEW k \in Jobs, ~Listed(k)'
               PROVE  /\ app'[k] # "NONE" => crashes >= 1 \/ Saving(k)'
                      /\ sentOn'[k] # Never =>
                           crashes >= 2 \/ (crashes >= 1 /\ Saving(k)')
    BY StepKeepsCounters DEF ListedUnlessDied
  <1> IInv /\ TypeOK /\ OneAtATime /\ ListedUnlessDied /\ Session(r)
    BY DEF SerialInv, IInv
  <1>0. ~Listed(k) /\ j \in Jobs /\ crashes \in Nat
    BY NothingTakenBack, WorkflowAssumption DEF TypeOK, Request
  <1>1. ~Listed(k) =>
          /\ app[k] # "NONE" => crashes >= 1 \/ Saving(k)
          /\ sentOn[k] # Never => crashes >= 2 \/ (crashes >= 1 /\ Saving(k))
    BY DEF ListedUnlessDied
  <1>2. Saving(k) => pc[r] \in Saved /\ k = j
    BY Alone DEF Saving, Saved
  <1>3. CASE (CommitAction(r) \/ CommitPacket(r)) /\ Goto(r, "committed")
    <2>1. pc[r] = "ready" /\ pc' = [pc EXCEPT ![r] = "committed"] /\ req' = req
      BY <1>3 DEF CommitAction, CommitPacket, Goto, Answer, TypeOK
    <2>2. Saving(j)'
      BY <2>1 DEF Saving, Saved, TypeOK
    <2>3. k # j => app'[k] = app[k] /\ sentOn'[k] = sentOn[k]
      BY <1>0, <1>3 DEF CommitAction, CommitPacket, TypeOK
    <2>4. req[r].kind # "generate" => app[j] # "NONE"
      BY <2>1 DEF Session
    <2>5. req[r].kind = "generate" => sentOn' = sentOn
      BY <1>3 DEF CommitAction, CommitPacket
    <2> QED
      BY <1>0, <1>1, <1>2, <2>1, <2>2, <2>3, <2>4, <2>5, <1>3
      DEF Saved, CommitAction, CommitPacket
  <1>4. CASE UNCHANGED <<app, sentOn>>
    <2>1. CASE k = j /\ pc[r] \in Saved
      <3>1. ~(InsertLedger(r) \/ UpdateLedger(r))
        <4>1. CASE InsertLedger(r)
          <5> DEFINE new == [job |-> j, by |-> r, status |-> req[r].note.status,
                             submitted |-> req[r].note.submitted]
          <5>1. new \in ledger' /\ new.job = k
            BY <2>1, <4>1 DEF InsertLedger
          <5> QED
            BY <5>1 DEF Listed
        <4>2. CASE UpdateLedger(r)
          BY <1>0, <2>1, <4>2 DEF UpdateLedger, Listed, Session
        <4> QED
          BY <4>1, <4>2
      <3>2. ~(ReadLedger(r) /\ Answer(r))
        <4> SUFFICES ASSUME ReadLedger(r), Answer(r) PROVE FALSE
          OBVIOUS
        <4>1. Cardinality(RowsOf(j)) > 1
          BY DEF ReadLedger, Answer, Goto, TypeOK
        <4>2. RowsOf(j) # {}
          BY <4>1, FS_EmptySet
        <4> QED
          BY <1>0, <2>1, <4>2 DEF RowsOf, Listed
      <3>3. pc'[r] \in Saved /\ req'[r].job = j
        BY <2>1, <3>1, <3>2
        DEF Saved, Arrive, Serve, Check, CommitAction, CommitPacket, Refresh, ReadLedger,
            RecordTimeline, Goto, TypeOK, Request
      <3>4. Saving(k)'
        BY <2>1, <3>3 DEF Saving
      <3> QED
        BY <1>0, <1>1, <1>4, <3>4
    <2>2. CASE ~(k = j /\ pc[r] \in Saved)
      BY <1>0, <1>1, <1>2, <1>4, <2>2
    <2> QED
      BY <2>1, <2>2
  <1> QED
    BY <1>3, <1>4 DEF Arrive, Serve, Check, CommitAction, CommitPacket, Refresh, ReadLedger,
                      InsertLedger, UpdateLedger, RecordTimeline

LEMMA NextListed ==
    ASSUME SerialInv, [Next]_vars
    PROVE  ListedUnlessDied'
  <1> IInv /\ TypeOK /\ ListedUnlessDied
    BY DEF SerialInv, IInv
  <1>0. crashes \in Nat
    BY WorkflowAssumption DEF TypeOK
  <1>1. CASE Environment \/ UNCHANGED vars
    BY <1>1, EnvironmentTypeOK DEF ListedUnlessDied, Listed, Saving, vars, env
  <1>2. CASE Crash
    <2>1. /\ UNCHANGED <<app, sentOn, ledger, workers>>
          /\ crashes' = crashes + 1
      BY <1>2 DEF Crash
    <2> QED
      BY <1>0, <2>1 DEF ListedUnlessDied, Listed
  <1> QED
    BY <1>1, <1>2, ServeListed DEF Next, Environment

LEMMA NextPassed ==
    ASSUME SerialInv, [Next]_vars
    PROVE  Passed'
  <1> SUFFICES ASSUME workers' = 1, NEW q \in Requests, NEW k \in Jobs,
                      pc'[q] = "ready", req'[q].kind = "mark_submitted",
                      k # req'[q].job, Exact(req'[q].job, k), Listed(k)'
               PROVE  override'[req'[q].job] # Never
    BY DEF Passed
  <1> IInv /\ TypeOK /\ OneAtATime /\ Passed
    BY DEF SerialInv, IInv
  <1>0. req[q].job \in Jobs
    BY DEF TypeOK, Request
  <1>1. CASE \E r \in Requests : Arrive(r) \/ Serve(r)
    <2>1. PICK r \in Requests : Arrive(r) \/ Serve(r)
      BY <1>1
    <2>2. q = r
      BY <2>1, Alone, ServeTouchesOnlyItself, StepKeepsCounters DEF OthersUntouched
    <2>3. Check(r) /\ ~Answer(r) /\ req' = req
      <3>1. Check(r)
        BY <2>1, <2>2
        DEF TypeOK, Arrive, Serve, CommitAction, CommitPacket, Refresh, ReadLedger,
            InsertLedger, UpdateLedger, RecordTimeline, Goto, Answer
      <3>2. ~Answer(r)
        BY <2>2 DEF TypeOK, Answer, Goto
      <3>3. req' # [req EXCEPT ![r] = NewRequest("generate", req[r].job)]
        BY <2>2 DEF TypeOK, NewRequest
      <3> QED
        BY <3>1, <3>2, <3>3 DEF Check
    <2>4. Risk(req[r].job) # "RED"
      BY <2>2, <2>3 DEF Check, Rechecked, Blocked
    <2>5. \E row \in ledger : row.job # req[r].job /\ Exact(req[r].job, row.job)
      BY <2>2, <2>3 DEF Check, Listed
    <2>6. Within(OverrideTtlDays, override[req[r].job], today)
      BY <1>0, <2>2, <2>4, <2>5, RiskByMatch
    <2> QED
      BY <2>1, <2>2, <2>3, <2>6, StepKeepsCounters DEF Within
  <1>2. CASE Environment
    BY <1>0, <1>2, EnvironmentTypeOK DEF Passed, Listed
  <1>3. CASE Crash
    BY <1>3 DEF Crash, InFlight, TypeOK
  <1>4. CASE UNCHANGED vars
    BY <1>4 DEF vars, env, Passed, Listed
  <1> QED
    BY <1>1, <1>2, <1>3, <1>4 DEF Next, Environment

LEMMA ExactSymmetric == \A j, k \in Jobs : Exact(j, k) => Exact(k, j)
  BY DEF Exact, SameKey, SameCompany

(* The second of two submissions of one position needed an override.       *)
LEMMA NextNoDouble ==
    ASSUME SerialInv, [Next]_vars
    PROVE  NoDoubleSubmissionWhenSerial'
  <1> IInv /\ TypeOK /\ OneAtATime /\ Passed /\ ListedUnlessDied
        /\ NoDoubleSubmissionWhenSerial
    BY DEF SerialInv, IInv
  <1>0. crashes \in Nat
    BY WorkflowAssumption DEF TypeOK
  <1>1. CASE \E r \in Requests : CommitAction(r)
    <2>1. PICK r \in Requests : CommitAction(r)
      BY <1>1
    <2>2. UNCHANGED <<override, crashes, workers>>
      BY <2>1, StepKeepsCounters DEF Serve
    <2> DEFINE i == req[r].job
    <2>3. \A q \in Jobs : sentOn'[q] # Never =>
            sentOn[q] # Never \/ (q = i /\ req[r].kind = "mark_submitted")
      BY <2>1 DEF CommitAction, TypeOK
    <2>4. ASSUME workers = 1, crashes <= 1, req[r].kind = "mark_submitted",
                 NEW k \in Jobs, k # i, Exact(i, k), sentOn[k] # Never
          PROVE  override[i] # Never
      <3>1. ~Saving(k)
        BY <2>1, <2>4, Alone DEF Saving, Saved, Serve, CommitAction
      <3>2. Listed(k)
        BY <1>0, <2>4, <3>1 DEF ListedUnlessDied
      <3> QED
        BY <2>1, <2>4, <3>2 DEF Passed, CommitAction
    <2> QED
      BY <2>2, <2>3, <2>4, ExactSymmetric DEF NoDoubleSubmissionWhenSerial, BothSent
  <1>2. CASE ~\E r \in Requests : CommitAction(r)
    <2>1. UNCHANGED <<sentOn, workers>> /\ crashes' \in {crashes, crashes + 1}
      BY <1>2 DEF Next, Arrive, Serve, Check, CommitPacket, Refresh, ReadLedger,
           InsertLedger, UpdateLedger, RecordTimeline, Override, AssistedOpen,
           Representation, NextDay, Crash, vars, env
    <2> QED
      BY <1>0, <2>1, NothingTakenBack DEF NoDoubleSubmissionWhenSerial, BothSent
  <1> QED
    BY <1>1, <1>2

LEMMA InitSerialInv == Init => SerialInv
  BY InitIInv
  DEF Init, SerialInv, OneAtATime, ListedUnlessDied, Passed, InFlight,
      NoDoubleSubmissionWhenSerial, BothSent

LEMMA NextSerialInv == SerialInv /\ [Next]_vars => SerialInv'
  BY NextIInv, NextOneAtATime, NextListed, NextPassed, NextNoDouble DEF SerialInv

(* Served one at a time, two postings of one position are not both marked  *)
(* submitted without an override, even if the process dies once.           *)
THEOREM SubmittedOnce == Spec => []NoDoubleSubmissionWhenSerial
  <1>1. SerialInv => NoDoubleSubmissionWhenSerial
    BY DEF SerialInv
  <1> QED
    BY <1>1, InitSerialInv, NextSerialInv, PTL DEF Spec

-----------------------------------------------------------------------------
(* One request at a time and no deaths: the ledger follows.                *)
LEMMA ReadingFindsAtMostOne ==
    ASSUME OneRowEach, NEW j \in Jobs
    PROVE  ~(Cardinality(RowsOf(j)) > 1)
  <1>1. CASE RowsOf(j) = {}
    BY <1>1, FS_EmptySet
  <1>2. CASE RowsOf(j) # {}
    <2>1. PICK x \in RowsOf(j) : TRUE
      BY <1>2
    <2>2. RowsOf(j) = {x}
      BY <2>1 DEF RowsOf, OneRowEach
    <2>3. Cardinality({x}) = 1
      BY FS_Singleton
    <2> QED
      BY <2>2, <2>3
  <1> QED
    BY <1>1, <1>2

(* The step of the only request that runs.                                 *)
LEMMA ServeLedger ==
    ASSUME LedgerInv, Undisturbed, NEW r \in Requests, Arrive(r) \/ Serve(r)
    PROVE  (OneRowEach /\ AllFollow /\ NotesCurrent /\ AllTold)'
  <1> DEFINE j == req[r].job
             s == req[r]
  <1> /\ IInv /\ TypeOK /\ OneAtATime /\ Session(r) /\ Reported
      /\ OneRowEach /\ AllFollow /\ NotesCurrent /\ AllTold
    BY DEF LedgerInv, IInv
  <1>0. /\ \A q \in Requests \ {r} : pc[q] \in {"idle", "done"} /\ pc'[q] \in {"idle", "done"}
        /\ j \in Jobs
    BY Alone, ServeTouchesOnlyItself DEF Undisturbed, OthersUntouched, TypeOK, Request
  <1>1. /\ \A k \in Jobs : Saving(k) <=> pc[r] \in Saved /\ k = j
        /\ \A k \in Jobs : Saving(k)' <=> pc'[r] \in Saved /\ k = req'[r].job
        /\ \A k \in Jobs : Submitting(k) <=> /\ pc[r] \in Saved \union {"recorded"}
                                             /\ k = j /\ s.kind = "mark_submitted"
        /\ \A k \in Jobs : Submitting(k)' <=> /\ pc'[r] \in Saved \union {"recorded"}
                                              /\ k = req'[r].job
                                              /\ req'[r].kind = "mark_submitted"
    BY <1>0 DEF Saving, Submitting, Saved
  <1>2. CASE /\ UNCHANGED <<app, sentOn, ledger, timeline>>
             /\ pc[r] \in {"idle", "check", "ready"}
             /\ pc'[r] \in {"check", "ready", "done"}
    <2>1. OneRowEach' /\ NotesCurrent'
      BY <1>0, <1>2 DEF OneRowEach, NotesCurrent
    <2>2. AllFollow' /\ AllTold'
      BY <1>1, <1>2 DEF AllFollow, AllTold, Follows, Saved
    <2> QED
      BY <2>1, <2>2
  <1>3. CASE CommitAction(r) \/ (CommitPacket(r) /\ Goto(r, "committed"))
    <2>1. /\ pc[r] = "ready" /\ pc'[r] = "committed" /\ req' = req
          /\ UNCHANGED <<ledger, timeline>>
          /\ \A k \in Jobs \ {j} : app'[k] = app[k] /\ sentOn'[k] = sentOn[k]
          /\ s.kind # "mark_submitted" => sentOn' = sentOn
      BY <1>3 DEF CommitAction, CommitPacket, Goto, Answer, TypeOK
    <2>2. OneRowEach' /\ NotesCurrent'
      BY <1>0, <2>1 DEF OneRowEach, NotesCurrent
    <2>3. AllFollow'
      BY <1>1, <2>1 DEF AllFollow, Follows, Saved
    <2>4. AllTold'
      BY <1>1, <2>1 DEF AllTold, Saved
    <2> QED
      BY <2>2, <2>3, <2>4
  <1>4. CASE Refresh(r) \/ ReadLedger(r)
    <2>1. UNCHANGED <<app, sentOn, ledger, timeline>> /\ pc[r] \in Saved
      BY <1>4 DEF Refresh, ReadLedger, Saved
    <2>2. pc'[r] \in Saved /\ req'[r].job = j /\ req'[r].kind = s.kind
      BY <1>0, <1>4, ReadingFindsAtMostOne
      DEF Refresh, ReadLedger, Goto, Saved, TypeOK, Request
    <2>3. NotesCurrent'
      <3> SUFFICES (/\ pc[r] \in {"refreshed", "read"} => Current(r)
                    /\ pc[r] = "read" => req[r].found = RowsOf(req[r].job))'
        BY <1>0 DEF NotesCurrent
      <3>1. CASE Refresh(r)
        BY <3>1, <2>1 DEF Refresh, Goto, Current, TypeOK, Request
      <3>2. CASE ReadLedger(r)
        <4>0. ~(Cardinality(RowsOf(j)) > 1)
          BY <1>0, ReadingFindsAtMostOne
        <4>1. req' = [req EXCEPT ![r].found = RowsOf(j)] /\ pc[r] = "refreshed"
          BY <3>2, <4>0 DEF ReadLedger
        <4>2. Current(r)'
          <5>1. req'[r].job = j /\ req'[r].note = s.note
            BY <4>1 DEF TypeOK, Request
          <5>2. Current(r)
            BY <4>1 DEF NotesCurrent
          <5> QED
            BY <2>1, <5>1, <5>2 DEF Current
        <4>3. (req[r].found = RowsOf(req[r].job))'
          BY <2>1, <4>1 DEF RowsOf, TypeOK, Request
        <4> QED
          BY <4>2, <4>3
      <3> QED
        BY <1>4, <3>1, <3>2
    <2>4. OneRowEach' /\ AllFollow' /\ AllTold'
      BY <1>1, <2>1, <2>2 DEF OneRowEach, AllFollow, Follows, AllTold
    <2> QED
      BY <2>3, <2>4
  <1>5. CASE InsertLedger(r) \/ UpdateLedger(r)
    <2>1. /\ UNCHANGED <<app, sentOn, timeline, req>>
          /\ pc[r] = "read" /\ pc'[r] = "recorded"
          /\ s.note = [status |-> app[j], submitted |-> sentOn[j]]
          /\ s.found = RowsOf(j)
      BY <1>5 DEF InsertLedger, UpdateLedger, Goto, TypeOK, NotesCurrent, Current
    <2>2. \E new : /\ new.job = j /\ new.status = app[j] /\ new.submitted = sentOn[j]
                   /\ ledger' = {row \in ledger : row.job # j} \union {new}
      <3>1. CASE InsertLedger(r)
        <4>1. \A row \in ledger : row.job # j
          BY <2>1, <3>1 DEF InsertLedger, RowsOf
        <4> DEFINE new == [job |-> j, by |-> r, status |-> s.note.status,
                           submitted |-> s.note.submitted]
        <4>2. new.job = j /\ new.status = app[j] /\ new.submitted = sentOn[j]
          BY <2>1
        <4>3. ledger' = {row \in ledger : row.job # j} \union {new}
          BY <3>1, <4>1 DEF InsertLedger
        <4> QED
          BY <4>2, <4>3
      <3>2. CASE UpdateLedger(r)
        <4>1. PICK old \in s.found, row \in ledger : Updates(r, old, row)
          BY <3>2, UpdateOfRow
        <4>2. row = old /\ row.job = j
          BY <2>1, <4>1 DEF Updates, RowsOf, OneRowEach
        <4>3. row \in LedgerRow
          BY DEF TypeOK
        <4>4. row.submitted # Never => sentOn[j] # Never
          BY <4>2 DEF Reported
        <4>5. /\ Updated(r, old, row).job = j
              /\ Updated(r, old, row).status = app[j]
              /\ Updated(r, old, row).submitted = sentOn[j]
          BY <2>1, <4>2, <4>3, <4>4 DEF Updated, LedgerRow
        <4>6. ledger \ {row} = {x \in ledger : x.job # j}
          BY <4>2 DEF OneRowEach
        <4> QED
          BY <4>1, <4>5, <4>6 DEF Updates
      <3> QED
        BY <1>5, <3>1, <3>2
    <2>3. PICK new : /\ new.job = j /\ new.status = app[j] /\ new.submitted = sentOn[j]
                     /\ ledger' = {row \in ledger : row.job # j} \union {new}
      BY <2>2
    <2>4. OneRowEach'
      BY <2>3 DEF OneRowEach
    <2>5. AllFollow'
      <3>1. Follows(j)'
        BY <2>1, <2>3 DEF Follows
      <3>2. \A k \in Jobs : k # j /\ Follows(k) => Follows(k)'
        BY <2>1, <2>3 DEF Follows
      <3> QED
        BY <1>1, <2>1, <3>1, <3>2 DEF AllFollow
    <2>6. AllTold'
      BY <1>1, <2>1 DEF AllTold, Saved
    <2>7. NotesCurrent'
      BY <1>0, <2>1 DEF NotesCurrent
    <2> QED
      BY <2>4, <2>5, <2>6, <2>7
  <1>6. CASE RecordTimeline(r)
    <2>1. /\ UNCHANGED <<app, sentOn, ledger>>
          /\ pc[r] = "recorded" /\ pc'[r] = "done"
          /\ timeline \subseteq timeline'
          /\ s.kind = "mark_submitted" => <<j, "mark_submitted">> \in timeline'
      BY <1>6 DEF RecordTimeline, Answer, Goto, TypeOK
    <2>2. OneRowEach' /\ NotesCurrent'
      BY <1>0, <2>1 DEF OneRowEach, NotesCurrent
    <2>3. AllFollow'
      BY <1>1, <2>1 DEF AllFollow, Follows, Saved
    <2>4. AllTold'
      BY <1>1, <2>1 DEF AllTold, Saved
    <2> QED
      BY <2>2, <2>3, <2>4
  <1>7. Arrive(r) \/ Check(r) \/ (CommitPacket(r) /\ ~Goto(r, "committed")) =>
          /\ UNCHANGED <<app, sentOn, ledger, timeline>>
          /\ pc[r] \in {"idle", "check", "ready"}
          /\ pc'[r] \in {"check", "ready", "done"}
    BY DEF Arrive, Check, CommitPacket, Answer, Goto, TypeOK
  <1> QED
    BY <1>2, <1>3, <1>4, <1>5, <1>6, <1>7 DEF Serve

LEMMA InitLedgerInv == Init => LedgerInv
  BY InitIInv
  DEF Init, LedgerInv, OneAtATime, InFlight, OneRowEach, AllFollow, NotesCurrent, AllTold

LEMMA NextLedgerInv == LedgerInv /\ [Next]_vars => LedgerInv'
  <1> SUFFICES ASSUME LedgerInv, [Next]_vars, Undisturbed'
               PROVE  (OneRowEach /\ AllFollow /\ NotesCurrent /\ AllTold)'
    BY NextIInv, NextOneAtATime DEF LedgerInv
  <1> IInv /\ TypeOK
    BY DEF LedgerInv, IInv
  <1>1. CASE \E r \in Requests : Arrive(r) \/ Serve(r)
    BY <1>1, ServeLedger, StepKeepsCounters DEF Undisturbed
  <1>2. CASE Environment
    <2>1. Undisturbed
      BY <1>2, EnvironmentTypeOK DEF Undisturbed
    <2> QED
      BY <1>2, <2>1, EnvironmentTypeOK
      DEF LedgerInv, OneRowEach, AllFollow, Follows, Saving, NotesCurrent, Current, RowsOf,
          AllTold, Submitting
  <1>3. CASE Crash
    BY <1>3, WorkflowAssumption DEF Crash, Undisturbed, TypeOK
  <1>4. CASE UNCHANGED vars
    BY <1>4
    DEF vars, env, LedgerInv, Undisturbed, OneRowEach, AllFollow, Follows, Saving,
        NotesCurrent, Current, RowsOf, AllTold, Submitting
  <1> QED
    BY <1>1, <1>2, <1>3, <1>4 DEF Next, Environment

(* Served one at a time and without deaths, the ledger shows every         *)
(* application exactly once, with its state and date, and the timeline     *)
(* tells every submission, as soon as no request is running.               *)
THEOREM LedgerFollows == Spec => []LedgerFollowsWhenSerial
  <1>1. LedgerInv => LedgerFollowsWhenSerial
    <2> SUFFICES ASSUME LedgerInv, Undisturbed, InFlight = {}, NEW j \in Jobs,
                        app[j] # "NONE"
                 PROVE  /\ \E row \in ledger :
                             /\ {other \in ledger : other.job = j} = {row}
                             /\ row.status = app[j] /\ row.submitted = sentOn[j]
                        /\ sentOn[j] # Never => <<j, "mark_submitted">> \in timeline
      BY DEF LedgerFollowsWhenSerial, Undisturbed
    <2>1. \A r \in Requests : pc[r] \in {"idle", "done"}
      BY DEF InFlight
    <2>2. Follows(j)
      BY <2>1 DEF LedgerInv, AllFollow, Saving, Saved
    <2>3. sentOn[j] # Never => <<j, "mark_submitted">> \in timeline
      BY <2>1 DEF LedgerInv, AllTold, Submitting, Saved
    <2>4. PICK row \in ledger : row.job = j /\ row.status = app[j] /\ row.submitted = sentOn[j]
      BY <2>2 DEF Follows
    <2>5. {other \in ledger : other.job = j} = {row}
      BY <2>4 DEF LedgerInv, OneRowEach
    <2> QED
      BY <2>3, <2>4, <2>5
  <1> QED
    BY <1>1, InitLedgerInv, NextLedgerInv, PTL DEF Spec
=============================================================================
