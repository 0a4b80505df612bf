------------------------------- MODULE Intake -------------------------------
(***************************************************************************)
(* Everything that fills the jobs table: Gmail synchronisation             *)
(* (services/gmail_lifecycle.py), connector campaigns                      *)
(* (services/fresh_jobs_discovery.py, connector_runner.py), the two in     *)
(* sequence (discovery_orchestration.py), the owner's review queue         *)
(* (routers/gmail_reviews.py) and confirmed opportunities                  *)
(* (services/opportunity_intake.py).                                       *)
(*                                                                         *)
(* A request works through units (messages, boards, one review, one        *)
(* opportunity) in one database session and commits many times.            *)
(***************************************************************************)
EXTENDS JobIntake, GmailReplay, Sequences, SequencesExt

CONSTANTS
    Mailbox,        \* sequence of labelled messages, newest first
    Kind,           \* message -> "alert", "unclear" (an alert in which no
                    \* posting could be read is) or its lifecycle type
    Thread,         \* message -> thread (with type and subject)
    About,          \* lifecycle message -> posting it names, as a set
    Digest,         \* message or board -> sequence of postings in it
    Boards,         \* sequence of campaigns
    Correction,     \* message -> posting the owner makes of its review
    UnstorableMail, \* messages whose texts the database refuses
    Opportunity,    \* posting of the owner's own, or of a board
    FetchLimit,     \* max_results
    Requests,
    May,            \* request -> kinds it may be
    Workers,        \* possible numbers of worker threads
    MaxCrashes,     \* bound on deaths of the process, per number of threads
    MaxParser       \* bound on GMAIL_PARSER_VERSION

Messages == Range(Mailbox)
Campaigns == Range(Boards)
RequestKinds == {"sync", "gmail", "discover", "all", "approve", "correct",
                 "reject", "confirm"}

ASSUME IntakeAssumption ==
    /\ Mailbox \in Seq(Messages) /\ Boards \in Seq(Campaigns)
    /\ Messages \intersect Campaigns = {}
    /\ Kind \in [Messages -> {"alert", "unclear"} \union LifecycleTypes]
    /\ DOMAIN Thread = Messages
    /\ UnstorableMail \subseteq Messages
    /\ Correction \in [Messages -> Postings] /\ Opportunity \in Postings
    /\ About \in [Messages -> SUBSET Postings]
    /\ Digest \in [Messages \union Campaigns -> Seq(Postings)]
    /\ \A m \in Messages : Kind[m] = "alert" => Digest[m] # <<>>
    /\ May \in [Requests -> SUBSET RequestKinds]
    /\ Workers \subseteq Nat \ {0}
    /\ \A w \in Workers : MaxCrashes[w] \in Nat
    /\ FetchLimit \in Nat /\ MaxParser \in Nat \ {0}

VARIABLES
    rows,           \* processed_gmail_messages
    signals,        \* messages that have a recruiter_signals row
    jobs, companies,
    reviews,        \* gmail_ingest_reviews, per message
    parser,         \* GMAIL_PARSER_VERSION of the running code
    crashes, workers,
    pc,             \* how far each request has got
    req             \* its session: kind, units left (work), postings left in
                    \* the unit (todo), LEGACY rows inserted and not
                    \* committed (claims), decision on the posting being
                    \* inserted, whether its company was unknown (fresh),
                    \* whether the session awaits a rollback (broken), the
                    \* review's place in the queue (at); campaigns reported
                    \* in source_errors (errors), those whose provider gave
                    \* no answer (failed); units that raised, whose exception
                    \* did not end the request (raised)

mail == <<rows, signals, reviews>>
env == <<parser, crashes, workers>>
vars == <<mail, jobs, companies, env, pc, req>>

Review == [status : {"quarantined", "approved", "rejected"},
           titled : BOOLEAN, job : BOOLEAN]
Request == [kind : RequestKinds, work : Seq(Messages \union Campaigns),
            todo : Seq(Postings), claims : SUBSET Messages,
            decision : Decisions, fresh : BOOLEAN, broken : BOOLEAN,
            at : Nat, errors : SUBSET Campaigns, failed : SUBSET Campaigns,
            raised : SUBSET (Messages \union Campaigns)]
NewRequest(k, work) ==
    [kind |-> k, work |-> work, todo |-> <<>>, claims |-> {},
     decision |-> "ACCEPT", fresh |-> FALSE, broken |-> FALSE,
     at |-> 0, errors |-> {}, failed |-> {}, raised |-> {}]

Init ==
    /\ rows = [m \in Messages |-> NoRow]
    /\ signals = {} /\ companies = {}
    /\ jobs = [p \in Postings |-> NoJob]
    /\ reviews = [m \in Messages |-> <<>>]
    /\ parser = 1 /\ crashes = 0 /\ workers \in Workers
    /\ pc = [r \in Requests |-> "idle"]
    /\ req = [r \in Requests |-> NewRequest("sync", <<>>)]

IntakeTypeOK ==
    /\ rows \in [Messages -> Row(1..MaxParser,
                                  {0, 1} \union {Len(Digest[m]) : m \in Messages})
                               \union {NoRow}]
    /\ signals \subseteq Messages
    /\ jobs \in [Postings -> JobRow \union {NoJob}]
    /\ companies \subseteq Range(Company)
    /\ \A m \in Messages : reviews[m] \in Seq(Review)
    /\ parser \in 1..MaxParser /\ crashes \in 0..MaxCrashes[workers]
    /\ workers \in Workers
    /\ pc \in [Requests -> {"idle", "unit", "look", "insert", "commit",
                            "run", "thread", "signal", "outcome",
                            "quarantine", "failed", "owner", "done"}]
    /\ req \in [Requests -> Request]

-----------------------------------------------------------------------------
InFlight == {r \in Requests : pc[r] \notin {"idle", "done"}}
Unit(r) == Head(req[r].work)
OnMessage(r) == Unit(r) \in Messages
OwnerKinds == {"approve", "correct", "reject", "confirm"}
Goto(r, label) == pc' = [pc EXCEPT ![r] = label]
Become(r, label, state) ==
    /\ Goto(r, label)
    /\ req' = [req EXCEPT ![r] = state]

NeedsReplay(m) ==
    LegacyRowNeedsReplay(m \in signals, m \in signals,
                         Range(Digest[m]) \intersect Stored(jobs) # {})
Skipped(m) == ShouldSkipFetch(rows[m], NeedsReplay(m))
Replayed(m) == ShouldReplayRow(rows[m], NeedsReplay(m), parser)

(* Messages of a fetch: newest first, those without need left out, at most *)
(* FetchLimit.                                                             *)
Wanted == {i \in DOMAIN Mailbox : ~Skipped(Mailbox[i])}
Rank(i) == Cardinality({j \in Wanted : j <= i})
Fetched ==
    [k \in 1..(IF Rank(Len(Mailbox)) < FetchLimit THEN Rank(Len(Mailbox))
                                                 ELSE FetchLimit)
       |-> Mailbox[CHOOSE i \in Wanted : Rank(i) = k]]

(* A commit writes the rows claimed in this session.                       *)
WithClaims(r) == [m \in Messages |->
                    IF m \in req[r].claims /\ rows[m] = NoRow
                    THEN ClaimedRow ELSE rows[m]]
Committed(r) == [req[r] EXCEPT !.claims = {}]

(* Mutant: the corrected fields only change the copy that is ingested.     *)
WithoutTitle(r) == reviews

(* A correction is committed with whatever its ingestion commits.          *)
WithTitle(r) ==
    IF req[r].kind # "correct" THEN reviews
    ELSE [reviews EXCEPT ![Unit(r)][req[r].at].titled = TRUE]

(* Mutant: a message that is not processed stays at the head.              *)
SameUnit(s) == [s EXCEPT !.todo = <<>>]

NextUnit(s) == [s EXCEPT !.work = Tail(@), !.todo = <<>>]

(* The posting at hand has job q; the unit's last posting ends its loop.   *)
(* The owner's request keeps q.                                            *)
AfterPosting(r, t, q) ==
    LET s == [t EXCEPT !.todo = Tail(@)]
    IN \/ s.kind \in OwnerKinds /\ Become(r, "owner", [s EXCEPT !.todo = <<q>>])
       \/ s.kind \notin OwnerKinds /\ s.todo # <<>> /\ Become(r, "look", s)
       \/ s.kind \notin OwnerKinds /\ s.todo = <<>>
            /\ Become(r, IF OnMessage(r) THEN "thread" ELSE "run", s)

(* Mutant: after an exception the session is of no use to later boards.    *)
RaiseForAll(r, broken) ==
    IF req[r].kind \in OwnerKinds \/ OnMessage(r)
    THEN Become(r, "done", NewRequest(req[r].kind, <<>>))
    ELSE Become(r, "unit", [NextUnit(req[r]) EXCEPT
                              !.errors = @ \union {Unit(r)},
                              !.raised = @ \union {Unit(r)},
                              !.broken = TRUE])

(* An exception leaves the ingestion: a campaign's is caught board by      *)
(* board, one of the Gmail stage once for the stage, others end the        *)
(* request.  When the flush failed (broken), on a constraint or on the     *)
(* data, PostgreSQL has dropped the transaction and the session refuses to *)
(* work until a rollback that no code here makes.                          *)
Raise(r, broken) ==
    LET s == IF broken THEN [req[r] EXCEPT !.claims = {}, !.broken = TRUE]
                       ELSE req[r]
    IN IF s.kind \in {"discover", "all"} /\ ~OnMessage(r)
       THEN Become(r, "unit", [NextUnit(s) EXCEPT
                                 !.errors = @ \union {Unit(r)},
                                 !.raised = @ \union {Unit(r)}])
       ELSE IF s.kind = "all"
       THEN Become(r, "unit", [s EXCEPT !.work = Boards, !.todo = <<>>,
                                        !.raised = @ \union {Unit(r)}])
       ELSE Become(r, "done", NewRequest(s.kind, <<>>))
-----------------------------------------------------------------------------
(* A request starts.                                                       *)
Arrive(r) ==
    /\ pc[r] = "idle"
    /\ Cardinality(InFlight) < workers
    /\ \E k \in May[r] :
         \/ k \in {"sync", "gmail"}
              /\ Become(r, "unit", NewRequest(k, Fetched))
         \/ k = "discover" /\ Become(r, "unit", NewRequest(k, Boards))
         \/ k = "all" /\ Become(r, "unit", NewRequest(k, Fetched \o Boards))
         \/ k = "confirm"
              /\ Become(r, "look", [NewRequest(k, <<>>)
                                      EXCEPT !.todo = <<Opportunity>>])
    /\ UNCHANGED <<mail, jobs, companies, env>>

(* The owner acts on the message's latest review.                          *)
ReviewArrives(r) ==
    /\ pc[r] = "idle"
    /\ Cardinality(InFlight) < workers
    /\ \E k \in May[r] \intersect {"approve", "correct", "reject"},
          m \in Messages :
         LET s == [NewRequest(k, <<m>>) EXCEPT !.todo = <<Correction[m]>>,
                                               !.at = Len(reviews[m])]
         IN /\ reviews[m] # <<>>
            /\ k = "approve" => Last(reviews[m]).status # "approved"
                                /\ Last(reviews[m]).titled
            /\ IF k = "reject" \/ (k = "approve" /\ Last(reviews[m]).job)
               THEN Become(r, "owner", s)
               ELSE Become(r, "look", s)
    /\ UNCHANGED <<mail, jobs, companies, env>>

(* No unit is left.  gmail/sync writes an audit row, which commits.        *)
Finish(r) ==
    /\ pc[r] = "unit" /\ req[r].work = <<>>
    /\ rows' = IF req[r].kind = "sync" THEN WithClaims(r) ELSE rows
    /\ Become(r, "done", NewRequest(req[r].kind, <<>>))
    /\ UNCHANGED <<signals, reviews, jobs, companies, env>>

(* Another session's uncommitted row makes the INSERT wait.                *)
ClaimFree(r, m) ==
    \A q \in InFlight \ {r} : m \notin req[q].claims

(* _claim_message, the look for an existing signal, and classification.    *)
Claim(r) ==
    /\ pc[r] = "unit" /\ req[r].work # <<>> /\ OnMessage(r)
    /\ LET m == Unit(r)
           s == IF rows[m] = NoRow
                THEN [req[r] EXCEPT !.claims = @ \union {m}] ELSE req[r]
       IN /\ rows[m] = NoRow => ClaimFree(r, m)
          /\ IF \/ rows[m] # NoRow /\ ~Replayed(m)
                \/ m \in signals
             THEN Become(r, "unit", NextUnit(req[r]))
             ELSE CASE Kind[m] = "unclear" -> Become(r, "quarantine", s)
                    [] Kind[m] = "alert" ->
                         Become(r, "look", [s EXCEPT !.todo = Digest[m]])
                    [] OTHER -> Become(r, "thread", s)
    /\ UNCHANGED <<mail, jobs, companies, env>>

(* run_connector: the provider is not ready or refuses its parameters; its *)
(* call fails, and a run row is committed; or its postings are ingested,   *)
(* which a broken session refuses.                                         *)
FetchBoard(r) ==
    /\ pc[r] = "unit" /\ req[r].work # <<>> /\ ~OnMessage(r)
    /\ \/ \E recorded \in {FALSE, ~req[r].broken} :
            /\ rows' = IF recorded THEN WithClaims(r) ELSE rows
            /\ Become(r, "unit",
                      [NextUnit(IF recorded THEN Committed(r) ELSE req[r])
                         EXCEPT !.errors = @ \union {Unit(r)},
                                !.failed = @ \union {Unit(r)}])
       \/ /\ req[r].broken
          /\ Become(r, "unit", [NextUnit(req[r]) EXCEPT
                                  !.errors = @ \union {Unit(r)}])
          /\ rows' = rows
       \/ /\ ~req[r].broken
          /\ Become(r, IF Digest[Unit(r)] = <<>> THEN "run" ELSE "look",
                    [req[r] EXCEPT !.todo = Digest[Unit(r)]])
          /\ rows' = rows
    /\ UNCHANGED <<signals, reviews, jobs, companies, env>>

(* The connector_runs row of a board is committed.                         *)
RecordRun(r) ==
    /\ pc[r] = "run"
    /\ rows' = WithClaims(r)
    /\ Become(r, "unit", NextUnit(Committed(r)))
    /\ UNCHANGED <<signals, reviews, jobs, companies, env>>

(* The lookups for one posting.  A repeated position is audited, which     *)
(* commits.                                                                *)
Look(r) ==
    /\ pc[r] = "look"
    /\ LET p == Head(req[r].todo)
       IN \/ /\ jobs[p] # NoJob
             /\ AfterPosting(r, req[r], p)
             /\ UNCHANGED <<rows, reviews>>
          \/ /\ jobs[p] = NoJob /\ Ambiguous(jobs, p)
             /\ Raise(r, FALSE)
             /\ UNCHANGED <<rows, reviews>>
          \/ /\ jobs[p] = NoJob /\ ~Ambiguous(jobs, p)
             /\ \E q \in SamePosition(jobs, p) :
                   AfterPosting(r, Committed(r), q)
             /\ rows' = WithClaims(r) /\ reviews' = WithTitle(r)
          \/ /\ jobs[p] = NoJob /\ ~Ambiguous(jobs, p)
             /\ SamePosition(jobs, p) = {}
             /\ Become(r, "insert",
                       [req[r] EXCEPT !.decision = DecisionOf(jobs, p)])
             /\ UNCHANGED <<rows, reviews>>
    /\ UNCHANGED <<signals, jobs, companies, env>>

(* The INSERT fails on data that are too long; it waits for one of the     *)
(* same key that is not committed, and fails when that one is.  The        *)
(* company is looked up.                                                   *)
InsertJob(r) ==
    /\ pc[r] = "insert"
    /\ LET p == Head(req[r].todo)
       IN /\ \A q \in InFlight \ {r} : ~(pc[q] = "commit" /\ Head(req[q].todo) = p)
          /\ IF p \in Unstorable \/ jobs[p] # NoJob THEN Raise(r, TRUE)
             ELSE Become(r, "commit",
                         [req[r] EXCEPT !.fresh = Company[p] \notin companies])
    /\ UNCHANGED <<mail, jobs, companies, env>>

(* A company that was unknown is inserted; another request may have        *)
(* inserted it since.                                                      *)
CommitJob(r) ==
    /\ pc[r] = "commit"
    /\ LET p == Head(req[r].todo)
       IN IF req[r].fresh /\ Company[p] \in companies
          THEN Raise(r, TRUE) /\ UNCHANGED <<rows, reviews, jobs, companies>>
          ELSE /\ jobs' = [jobs EXCEPT ![p] = NewJob(p, req[r].decision)]
               /\ companies' = companies \union {Company[p]}
               /\ rows' = WithClaims(r) /\ reviews' = WithTitle(r)
               /\ AfterPosting(r, Committed(r), p)
    /\ UNCHANGED <<signals, env>>

(* Signals of the same thread, type and subject.                           *)
ThreadSignals(m) == {n \in signals : Thread[n] = Thread[m]}

(* A second message of a thread leaves its row as it is.                   *)
LookAtThread(r) ==
    /\ pc[r] = "thread"
    /\ CASE ThreadSignals(Unit(r)) = {} -> Become(r, "signal", req[r])
         [] Cardinality(ThreadSignals(Unit(r))) = 1 ->
              Become(r, "unit", NextUnit(req[r]))
         [] OTHER -> Raise(r, FALSE)
    /\ UNCHANGED <<mail, jobs, companies, env>>

LifecycleState == [INTERVIEW |-> "INTERVIEW_SIGNAL", OFFER |-> "OFFER",
                   REJECTION |-> "REJECTED_BY_EMPLOYER"]

(* The signal and the state of the job it is about, in one commit; not of a *)
(* message whose subject or sender is too long for its column.             *)
InsertSignal(r) ==
    /\ pc[r] = "signal"
    /\ LET m == Unit(r)
       IN IF m \in UnstorableMail \/ m \in signals
          THEN Raise(r, TRUE) /\ UNCHANGED <<rows, signals, jobs>>
          ELSE /\ signals' = signals \union {m}
               /\ jobs' = [p \in Postings |->
                     IF /\ p \in About[m] \intersect Stored(jobs)
                        /\ Kind[m] \in DOMAIN LifecycleState
                     THEN [jobs[p] EXCEPT !.state = LifecycleState[Kind[m]]]
                     ELSE jobs[p]]
               /\ rows' = WithClaims(r)
               /\ Become(r, "outcome", Committed(r))
    /\ UNCHANGED <<reviews, companies, env>>

OutcomeOf(m) == IF Kind[m] = "alert" THEN AlertOutcome(Len(Digest[m]), parser)
                                     ELSE SignalOutcome(Kind[m], parser)

RecordOutcome(r) ==
    /\ pc[r] = "outcome"
    /\ rows' = [rows EXCEPT ![Unit(r)] = OutcomeOf(Unit(r))]
    /\ Become(r, "unit", NextUnit(req[r]))
    /\ UNCHANGED <<signals, reviews, jobs, companies, env>>

(* _quarantine_message: a review row, then the failed outcome.  What is too *)
(* long for a signal may fit the wider columns of a review.                *)
Quarantine(r) ==
    /\ pc[r] = "quarantine"
    /\ \/ /\ reviews' = [reviews EXCEPT ![Unit(r)] =
                           Append(@, [status |-> "quarantined", titled |-> FALSE,
                                      job |-> FALSE])]
          /\ rows' = WithClaims(r)
          /\ Become(r, "failed", Committed(r))
       \/ /\ Unit(r) \in UnstorableMail
          /\ Raise(r, TRUE)
          /\ UNCHANGED <<rows, reviews>>
    /\ UNCHANGED <<signals, jobs, companies, env>>

RecordFailure(r) ==
    /\ pc[r] = "failed"
    /\ rows' = [rows EXCEPT ![Unit(r)] = Failed(parser)]
    /\ Become(r, "unit", NextUnit(req[r]))
    /\ UNCHANGED <<signals, reviews, jobs, companies, env>>

(* A review the owner has decided.                                         *)
Decided(review, kind) ==
    [review EXCEPT !.status = IF kind = "reject" THEN "rejected" ELSE "approved",
                   !.job = @ \/ kind # "reject"]

(* The end of an owner's request: the review is decided, or the            *)
(* opportunity marked as the owner's (mark_owner_added).                   *)
Decide(r) ==
    /\ pc[r] = "owner"
    /\ IF req[r].kind = "confirm"
       THEN /\ jobs' = [jobs EXCEPT ![Head(req[r].todo)].manual = TRUE]
            /\ reviews' = reviews
       ELSE /\ reviews' = [WithTitle(r) EXCEPT ![Unit(r)][req[r].at] =
                                 Decided(@, req[r].kind)]
            /\ jobs' = jobs
    /\ Become(r, "done", NewRequest(req[r].kind, <<>>))
    /\ UNCHANGED <<rows, signals, companies, env>>

(* The process dies, with every session; perhaps a later version starts.   *)
Crash ==
    /\ crashes < MaxCrashes[workers] /\ InFlight # {}
    /\ crashes' = crashes + 1
    /\ parser' \in {v \in parser..parser + 1 : v <= MaxParser}
    /\ pc' = [r \in Requests |-> IF r \in InFlight THEN "idle" ELSE pc[r]]
    /\ req' = [r \in Requests |-> IF r \in InFlight
                                 THEN NewRequest("sync", <<>>) ELSE req[r]]
    /\ UNCHANGED <<mail, jobs, companies, workers>>

(* backfill_legacy_rows, which scripts of the owner call.  It is taken to  *)
(* run while no request does; the code has no such guard, and a row that a *)
(* request completes between its query and its commit would be flagged.    *)
Backfill ==
    /\ InFlight = {}
    /\ \E m \in Messages : rows[m] = ClaimedRow /\ NeedsReplay(m)
    /\ rows' = [m \in Messages |->
                  IF rows[m] = ClaimedRow /\ NeedsReplay(m)
                  THEN Backfilled(rows[m], 1) ELSE rows[m]]
    /\ UNCHANGED <<signals, reviews, jobs, companies, env, pc, req>>

Step(r) ==
    \/ Finish(r) \/ Claim(r) \/ FetchBoard(r) \/ RecordRun(r)
    \/ Look(r) \/ InsertJob(r) \/ CommitJob(r)
    \/ LookAtThread(r) \/ InsertSignal(r) \/ RecordOutcome(r)
    \/ Quarantine(r) \/ RecordFailure(r) \/ Decide(r)

Next ==
    \/ \E r \in Requests : Arrive(r) \/ ReviewArrives(r) \/ Step(r)
    \/ Crash \/ Backfill

(* A thread that can run does; only arrivals and crashes are the world's.  *)
Fairness == \A r \in Requests : WF_vars(Step(r))
Spec == Init /\ [][Next]_vars /\ Fairness
-----------------------------------------------------------------------------
(* No mail is forgotten: a message whose row may suppress it, in the fetch *)
(* or at the claim, has its signal, and an alert has every posting of its  *)
(* digest in the jobs table, itself or as a repeated position; whatever    *)
(* crashes and races cut its processing short (gmail_replay.py:45).        *)
NothingForgotten ==
    \A m \in Messages :
      rows[m] # NoRow /\ (Skipped(m) \/ ~Replayed(m)) =>
        /\ m \in signals
        /\ Kind[m] = "alert" =>
             \A i \in DOMAIN Digest[m] : SamePosition(jobs, Digest[m][i]) # {}

(* No mail is processed again once its signal is there, whether or not its *)
(* outcome was recorded before a crash; a new parser version changes the   *)
(* claim's answer for alerts but not the fetch's (gmail_replay.py:72, 99). *)
(* Not so for rows flagged for replay: their flag goes with the outcome.   *)
NothingTwice ==
    \A m \in signals :
      /\ rows[m] # NoRow
      /\ ~rows[m].replay =>
           /\ Skipped(m)
           /\ rows[m].parser \in {0, parser} => ~Replayed(m)

(* With one worker the owner sees a position once, and a URL once: repeats *)
(* are recognised across sources, retitled postings stored as duplicates   *)
(* (ingestion.py:107-131).                                                 *)
OneEligibleJobWhenSerial ==
    workers = 1 =>
      \A p, q \in Stored(jobs) :
        /\ Position[p] = Position[q] => p = q
        /\ jobs[p].eligible /\ jobs[q].eligible /\ q \in SameUrl(jobs, p) => p = q

(* What the database refuses to store of a unit.                           *)
Refused(u) == u \in UnstorableMail \/ Range(Digest[u]) \intersect Unstorable # {}

(* With one worker failures stay with their board, but for one kind: a     *)
(* campaign reports an error only for boards that gave no answer or whose  *)
(* own ingestion raised, unless the database refused the data of an        *)
(* earlier posting or message; no other exception leaves the session       *)
(* unusable (fresh_jobs_discovery.py:118-141).                             *)
BoardsIsolatedWhenSerial ==
    workers = 1 => \A r \in Requests :
      \/ req[r].errors \subseteq req[r].failed \union req[r].raised
      \/ \E u \in req[r].raised : Refused(u)

(* The runbook has other boards continue independently when one fails.     *)
BoardsContinue ==
    \A r \in Requests : req[r].errors \subseteq req[r].failed \union req[r].raised

(* A review that has become a job, and every review approved, has its      *)
(* position in the jobs table; approval never comes before ingestion       *)
(* (gmail_reviews.py:69-124).                                              *)
ApprovedHasJob ==
    \A m \in Messages : \A i \in DOMAIN reviews[m] :
      reviews[m][i].status = "approved" \/ reviews[m][i].job =>
        reviews[m][i].titled /\ SamePosition(jobs, Correction[m]) # {}

(* What the tables say to IntakeLedger.                                    *)
Announces == [m \in Messages |-> IF Kind[m] = "alert" THEN Range(Digest[m]) ELSE {}]
JobDecisions == [p \in Postings |-> jobs[p].decision]
LeftOut == {m \in Messages : Skipped(m)}
WithJob == {m \in Messages : \E i \in DOMAIN reviews[m] : reviews[m][i].job}
Ledger == INSTANCE IntakeLedger WITH
    Announced <- Announces, decided <- JobDecisions, settled <- signals,
    dropped <- LeftOut, accepted <- WithJob

(* Intake keeps the ledger of IntakeLedger: whatever sessions race or die, *)
(* no job is written over, no message is settled twice or before its jobs, *)
(* none that a fetch leaves out is ever looked at again, and no review     *)
(* becomes a job before its position is stored (ingestion.py:107,          *)
(* gmail_lifecycle.py:232, gmail_replay.py:72); as long as no request runs *)
(* beside a backfill.                                                      *)
ImplementsLedger == Ledger!LSpec

(* The comment at ingestion.py:130 has a retitled posting under a known    *)
(* URL persisted.  With one worker, and postings that fit their columns,   *)
(* nothing else makes the ingestion of a board raise.                      *)
RetitledIsPersisted ==
    workers = 1 /\ Unstorable = {} =>
      \A r \in Requests : req[r].raised \intersect Campaigns = {}

(* Every request ends: no wait for another session's rows is forever, and  *)
(* the loops over messages, boards and postings terminate.                 *)
RequestsEnd ==
    \A r \in Requests : pc[r] # "idle" ~> pc[r] \in {"idle", "done"}
=============================================================================
