------------------------- MODULE ApplicationWorkflow -------------------------
(***************************************************************************)
(* From packet to submission: generate (services/documents.py), the        *)
(* approval actions (services/approval.py), duplicate overrides            *)
(* (routers/companies.py) and assisted apply (services/assisted_apply.py)  *)
(* over the shared application ledger (services/duplicate_risk.py).        *)
(*                                                                         *)
(* A request checks the ledger, commits the new application state, and     *)
(* writes ledger and timeline in later transactions.                       *)
(***************************************************************************)
EXTENDS DuplicateRisk

CONSTANTS
    Requests,
    Kinds,          \* what multi-step requests ask for
    Workers,        \* possible numbers of worker threads
    Events,         \* number of threads -> which one-step requests occur
    MaxServed,      \* number of threads -> bound on requests
    MaxCrashes,     \* bound on deaths of the process
    MaxDay          \* bound on the calendar

(* ALLOWED_ACTIONS                                                         *)
Target == [approve |-> "APPROVED_FOR_SUBMISSION", needs_edit |-> "NEEDS_EDIT",
           hold |-> "SECONDARY_REVIEW", reject |-> "REJECTED",
           mark_submitted |-> "SUBMITTED", not_submitted |-> "NEEDS_EDIT",
           saved_for_later |-> "SECONDARY_REVIEW", withdrawn |-> "CLOSED",
           generate |-> "PACKET_READY"]

(* Mutant: marking as submitted trusts the check made for the packet.      *)
RecheckedOnce == {"generate", "approve"}

(* Actions that evaluate duplicate and representation risk again.          *)
Rechecked == {"generate", "approve", "mark_submitted"}

ASSUME WorkflowAssumption ==
    /\ Kinds \subseteq DOMAIN Target
    /\ Events \in [Workers -> SUBSET {"override", "assisted", "representation"}]
    /\ Workers \subseteq Nat /\ {MaxCrashes, MaxDay} \subseteq Nat
    /\ MaxServed \in [Workers -> Nat]
    /\ Jobs # {}

VARIABLES
    app,            \* applications.state; "NONE" = no application
    packets,        \* applications.latest_version_number
    sentOn,         \* applications.submitted_at
    ledger,         \* application_ledger rows; by = the request that inserted
    override,       \* day of the job's last duplicate override
    known,          \* jobs in the ledger when that override was recorded
    conflict,       \* jobs whose representation risk is RED
    timeline,       \* application_timeline_events
    today, crashes,
    workers,        \* worker threads, fixed when the process starts
    pc,             \* how far each request has got
    req             \* what its thread remembers: the action asked for (kind),
                    \* the job, state and packet number of the application
                    \* when it was loaded, state and date to put in the
                    \* ledger (note), the ledger rows it has read (found)

env == <<override, known, conflict, today, crashes, workers>>
vars == <<app, packets, sentOn, ledger, env, timeline, pc, req>>

Days == 0..MaxDay
Date == Days \union {Never}
States == ApplicationStates \union {"NONE"}
LedgerRow == [job : Jobs, by : Requests, status : ApplicationStates,
              submitted : Date]
Note == [status : States, submitted : Date]
Request == [kind : DOMAIN Target, job : Jobs, state : States, packets : Nat,
            note : Note, found : SUBSET LedgerRow]

NoNote == [status |-> "NONE", submitted |-> Never]
NewRequest(k, j) == [kind |-> k, job |-> j, state |-> app[j],
                     packets |-> packets[j], note |-> NoNote, found |-> {}]
NoRequest == [kind |-> "generate", job |-> CHOOSE j \in Jobs : TRUE,
              state |-> "NONE", packets |-> 0, note |-> NoNote, found |-> {}]

Init ==
    /\ app = [j \in Jobs |-> "NONE"]
    /\ packets = [j \in Jobs |-> 0]
    /\ sentOn = [j \in Jobs |-> Never]
    /\ ledger = {} /\ conflict = {} /\ timeline = {}
    /\ override = [j \in Jobs |-> Never]
    /\ known = [j \in Jobs |-> {}]
    /\ today = 0 /\ crashes = 0
    /\ workers \in Workers
    /\ pc = [r \in Requests |-> "idle"]
    /\ req = [r \in Requests |-> NoRequest]

TypeOK ==
    /\ app \in [Jobs -> States]
    /\ packets \in [Jobs -> Nat]
    /\ sentOn \in [Jobs -> Date]
    /\ ledger \subseteq LedgerRow
    /\ override \in [Jobs -> Date]
    /\ known \in [Jobs -> SUBSET Jobs]
    /\ conflict \subseteq Jobs
    /\ timeline \subseteq Jobs \X (DOMAIN Target \union {"assisted_open"})
    /\ today \in Days /\ crashes \in 0..MaxCrashes
    /\ workers \in Workers
    /\ pc \in [Requests -> {"idle", "check", "ready", "committed",
                            "refreshed", "read", "recorded", "done"}]
    /\ req \in [Requests -> Request]

Goto(r, label) == pc' = [pc EXCEPT ![r] = label]
Answer(r) == Goto(r, "done") /\ req' = [req EXCEPT ![r] = NoRequest]
InFlight == {r \in Requests : pc[r] \notin {"idle", "done"}}
Risk(j) == Level(j, ledger, override[j], today)
Blocked(j) == Risk(j) = "RED" \/ j \in conflict

-----------------------------------------------------------------------------
(* A request arrives; an action loads the application it is about.         *)
Arrive(r) ==
    /\ pc[r] = "idle"
    /\ Cardinality(InFlight) < workers
    /\ Cardinality({s \in Requests : pc[s] # "idle"}) < MaxServed[workers]
    /\ \E k \in Kinds, j \in Jobs :
         /\ k # "generate" => app[j] # "NONE"
         /\ req' = [req EXCEPT ![r] = NewRequest(k, j)]
    /\ Goto(r, "check")
    /\ UNCHANGED <<app, packets, sentOn, ledger, env, timeline>>

(* Duplicate and representation risk, where the request asks for them.     *)
(* Generation reads the application only now.                              *)
Check(r) ==
    LET j == req[r].job IN
    /\ pc[r] = "check"
    /\ IF req[r].kind \in Rechecked /\ Blocked(j)
       THEN Answer(r)
       ELSE /\ Goto(r, "ready")
            /\ req' = IF req[r].kind = "generate"
                      THEN [req EXCEPT ![r] = NewRequest("generate", j)]
                      ELSE req
    /\ UNCHANGED <<app, packets, sentOn, ledger, env, timeline>>

(* A state equal to the loaded one is not part of the UPDATE.              *)
Written(r) == IF req[r].state = Target[req[r].kind] THEN app[req[r].job]
                                                    ELSE Target[req[r].kind]

CommitAction(r) ==
    LET j == req[r].job IN
    /\ pc[r] = "ready" /\ req[r].kind # "generate"
    /\ app' = [app EXCEPT ![j] = Written(r)]
    /\ sentOn' = [sentOn EXCEPT ![j] =
                    IF req[r].kind = "mark_submitted" THEN today ELSE @]
    /\ Goto(r, "committed")
    /\ UNCHANGED <<packets, ledger, env, timeline, req>>

(* Generation fails, or loses its version number to a racing one (see      *)
(* DocumentVersions), or commits the packet.                               *)
CommitPacket(r) ==
    LET j == req[r].job IN
    /\ pc[r] = "ready" /\ req[r].kind = "generate"
    /\ \/ Answer(r) /\ UNCHANGED <<app, packets>>
       \/ /\ packets[j] = req[r].packets
          /\ app' = [app EXCEPT ![j] = Written(r)]
          /\ packets' = [packets EXCEPT ![j] = @ + 1]
          /\ Goto(r, "committed")
          /\ UNCHANGED req
    /\ UNCHANGED <<sentOn, ledger, env, timeline>>

(* After the commit the application is read again.                         *)
Refresh(r) ==
    LET j == req[r].job IN
    /\ pc[r] = "committed"
    /\ req' = [req EXCEPT ![r].note = [status |-> app[j], submitted |-> sentOn[j]]]
    /\ Goto(r, "refreshed")
    /\ UNCHANGED <<app, packets, sentOn, ledger, env, timeline>>

(* Mutants: the ledger row of an application is never found; or rows of    *)
(* the same position are taken for its own.                                *)
NoRows(j) == {}
RowsOfPosition(j) == {row \in ledger : row.job = j \/ Exact(j, row.job)}

RowsOf(j) == {row \in ledger : row.job = j}

(* record_ledger_from_application reads the row of the application; more   *)
(* than one row is an error.                                               *)
ReadLedger(r) ==
    LET rows == RowsOf(req[r].job) IN
    /\ pc[r] = "refreshed"
    /\ IF Cardinality(rows) > 1 THEN Answer(r)
       ELSE Goto(r, "read") /\ req' = [req EXCEPT ![r].found = rows]
    /\ UNCHANGED <<app, packets, sentOn, ledger, env, timeline>>

InsertLedger(r) ==
    /\ pc[r] = "read" /\ req[r].found = {}
    /\ ledger' = ledger \union {[job |-> req[r].job, by |-> r,
                                 status |-> req[r].note.status,
                                 submitted |-> req[r].note.submitted]}
    /\ Goto(r, "recorded")
    /\ UNCHANGED <<app, packets, sentOn, env, timeline, req>>

(* Again only columns that differ from the row as read are written.        *)
UpdateLedger(r) ==
    /\ pc[r] = "read"
    /\ \E old \in req[r].found, row \in ledger :
         LET note == req[r].note
             new == [row EXCEPT
               !.status = IF note.status = old.status THEN @ ELSE note.status,
               !.submitted = IF note.submitted \in {Never, old.submitted} THEN @
                             ELSE note.submitted] IN
         /\ row.job = old.job /\ row.by = old.by
         /\ ledger' = (ledger \ {row}) \union {new}
    /\ Goto(r, "recorded")
    /\ UNCHANGED <<app, packets, sentOn, env, timeline, req>>

RecordTimeline(r) ==
    /\ pc[r] = "recorded"
    /\ timeline' = IF req[r].kind \in {"needs_edit", "hold"} THEN timeline
                   ELSE timeline \union {<<req[r].job, req[r].kind>>}
    /\ Answer(r)
    /\ UNCHANGED <<app, packets, sentOn, ledger, env>>

-----------------------------------------------------------------------------
(* The owner overrides the duplicate risk of a job that is not GREEN.      *)
Override(j) ==
    /\ "override" \in Events[workers]
    /\ Risk(j) # "GREEN"
    /\ override' = [override EXCEPT ![j] = today]
    /\ known' = [known EXCEPT ![j] = {row.job : row \in ledger}]
    /\ UNCHANGED <<app, packets, sentOn, ledger, conflict, timeline, today,
                   crashes, workers, pc, req>>

(* prepare_assisted_apply and record_assisted_open.                        *)
AssistedOpen(j) ==
    /\ "assisted" \in Events[workers]
    /\ app[j] \in {"PACKET_READY", "APPROVED_FOR_SUBMISSION"}
    /\ ~Blocked(j)
    /\ timeline' = timeline \union {<<j, "assisted_open">>}
    /\ UNCHANGED <<app, packets, sentOn, ledger, env, pc, req>>

(* A vendor's representation of the client begins, ends or is overridden.  *)
Representation(j) ==
    /\ "representation" \in Events[workers]
    /\ conflict' = IF j \in conflict THEN conflict \ {j} ELSE conflict \union {j}
    /\ UNCHANGED <<app, packets, sentOn, ledger, override, known, timeline, today,
                   crashes, workers, pc, req>>

NextDay ==
    /\ today < MaxDay
    /\ today' = today + 1
    /\ UNCHANGED <<app, packets, sentOn, ledger, override, known, conflict, timeline,
                   crashes, workers, pc, req>>

Crash ==
    /\ InFlight # {} /\ crashes < MaxCrashes
    /\ crashes' = crashes + 1
    /\ pc' = [r \in Requests |-> IF r \in InFlight THEN "done" ELSE pc[r]]
    /\ req' = [r \in Requests |-> NoRequest]
    /\ UNCHANGED <<app, packets, sentOn, ledger, override, known, conflict, timeline,
                   today, workers>>

Serve(r) ==
    \/ Check(r) \/ CommitAction(r) \/ CommitPacket(r) \/ Refresh(r)
    \/ ReadLedger(r) \/ InsertLedger(r) \/ UpdateLedger(r) \/ RecordTimeline(r)

Next ==
    \/ \E r \in Requests : Arrive(r) \/ Serve(r)
    \/ \E j \in Jobs : Override(j) \/ AssistedOpen(j) \/ Representation(j)
    \/ NextDay \/ Crash

Spec == Init /\ [][Next]_vars

-----------------------------------------------------------------------------
BothSent(j, k) == j # k /\ Exact(j, k) /\ sentOn[j] # Never /\ sentOn[k] # Never

(* Served one at a time, two postings of one position are not both marked  *)
(* submitted unless the owner has overridden the duplicate risk of one of  *)
(* them, even if the process dies once between a commit and its ledger     *)
(* entry (the packet's entry covers for the submission's and vice versa).  *)
NoDoubleSubmissionWhenSerial ==
    workers = 1 /\ crashes <= 1 =>
      \A j, k \in Jobs : BothSent(j, k) => override[j] # Never \/ override[k] # Never

(* 05-DUPLICATE-APPLICATION "A stale green result is not sufficient": no    *)
(* packet is generated for a position already submitted as k on the        *)
(* strength of an override recorded before k was in the ledger.            *)
OverrideKnewMatch ==
    \A j, k \in Jobs :
      j # k /\ Exact(j, k) /\ app[j] # "NONE" /\ sentOn[k] # Never =>
        \/ override[j] # Never /\ k \in known[j]
        \/ override[k] # Never /\ j \in known[k]

(* Served one at a time and without deaths, the ledger shows every         *)
(* application exactly once, with its state and submission date, and the   *)
(* timeline tells every submission, as soon as no request is running.      *)
LedgerFollowsWhenSerial ==
    workers = 1 /\ crashes = 0 /\ InFlight = {} =>
      \A j \in Jobs : app[j] # "NONE" =>
        /\ \E row \in ledger :
             /\ {other \in ledger : other.job = j} = {row}
             /\ row.status = app[j] /\ row.submitted = sentOn[j]
        /\ sentOn[j] # Never => <<j, "mark_submitted">> \in timeline

(* Neither ledger nor timeline ever reports a submission that did not      *)
(* happen, whatever requests race and wherever the process dies.           *)
NoInventedSubmission ==
    \A j \in Jobs :
      \/ \E row \in ledger : row.job = j /\ row.submitted # Never
      \/ <<j, "mark_submitted">> \in timeline
      => sentOn[j] # Never

(* A posting blocked as an exact duplicate stays blocked, whatever becomes *)
(* of the application it duplicates (reject, withdraw), until the owner    *)
(* overrides it.                                                           *)
BlockedUntilOverride ==
    [][\A j \in Jobs :
         Risk(j) = "RED" => Risk(j)' = "RED" \/ override'[j] # override[j]]_vars
=============================================================================
