------------------------------ MODULE FreshJobs ------------------------------
(***************************************************************************)
(* The life of one job row on the owner's Fresh Jobs list: ingestion       *)
(* (services/ingestion.py), workflow and tracking                          *)
(* (services/discovery_origin.py), scoring (services/scoring.py,           *)
(* trust_matching.py), the list itself (routers/jobs.py) and the audit     *)
(* that decides all rows anew (scripts/audit_fresh_jobs.py).               *)
(***************************************************************************)
EXTENDS Eligibility, Opportunity

CONSTANTS
    Offers,         \* postings as payloads of the gate
    MaxDay          \* bound on the days that pass

PayloadFields == {"text", "country", "title", "body", "employer", "url",
                  "posted", "received", "fetched", "discovered", "source",
                  "state", "confirmed", "persisted"}

(* An offer says when it was posted and received, if anything, and was     *)
(* fetched on the first day if that is known; no connector says that an    *)
(* owner confirmed it, or what was decided of it.                          *)
ASSUME OffersAssumption ==
    /\ MaxDay \in Nat /\ MaxDay < NoTime
    /\ \A p \in Offers \union Forms : p.text \subseteq Signs
    /\ \A p \in Offers :
         /\ p = [f \in PayloadFields |-> p[f]]
         /\ p.employer \in BOOLEAN /\ {p.posted, p.received} \subseteq Nat
         /\ {p.fetched, p.discovered} \subseteq {0, NoTime}
         /\ p.confirmed = FALSE /\ p.persisted = "none"

VARIABLES
    posting,        \* payload the job was made from
    job,            \* its row in jobs
    today,
    audited         \* an audit has run today and nothing happened since

freshVars == <<posting, job, today, audited>>

NoRow == [decision |-> "none"]
FreshInit == posting = {} /\ job = NoRow /\ today = 0 /\ audited = FALSE

StateAfterGate(decision) ==
    CASE decision = "ACCEPT" -> "NORMALIZED"
      [] decision \in {"SECONDARY_REVIEW", "QUARANTINE", "OWNER_REVIEW"} ->
           "SECONDARY_REVIEW"
      [] decision = "HISTORICAL" -> "CLOSED"
      [] decision = "REJECT" -> "REJECTED"

(* score_job writes is_expired into the row; the rest of it is ranking.    *)
Scored(p, row, now) ==
    [row EXCEPT !.expired = Expired(p.posted, row.discovered, now)]

(* The row of a posting; one refused before its age was looked at keeps no *)
(* receipt time.                                                           *)
Row(p, decision, received, effective, now) ==
    [decision |-> decision, discovered |-> now,
     received |-> received, effective |-> effective,
     eligible |-> decision = "ACCEPT" \/ (p.confirmed /\ decision # "REJECT"),
     archived |-> decision = "HISTORICAL"
                  \/ (decision = "REJECT" /\ "closed" \in p.text),
     state |-> StateAfterGate(decision), expired |-> FALSE,
     tracked |-> FALSE, manual |-> p.confirmed]
RowOf(p, now) ==
    LET allow == p.source \in ManualSources \/ p.confirmed
    IN IF Refused(p) \/ p.title = <<>> \/ OutOfScope(p)
       THEN Row(p, Gate(p, now, allow), NoTime, now, now)
       ELSE Row(p, Gate(p, now, allow), p.received,
                FirstKnown(FreshnessTime(p, now, allow), now), now)

(* Mutant: what the last decision accepted is shown, whatever its age.     *)
ListedAtAnyAge(row, now) ==
    row.eligible /\ ~row.archived /\ row.decision = "ACCEPT"

(* The default list: _apply_fresh_jobs_defaults.                           *)
Listed(row, now) ==
    /\ row # NoRow
    /\ row.eligible /\ ~row.archived /\ ~row.expired
    /\ \/ row.state \in ProtectedStates
       \/ row.tracked
       \/ row.effective + RecentDays >= now
    /\ row.decision = "ACCEPT"

(* _job_payload: what the audit hands to the gate.  The country code, the  *)
(* fetch time and the tracking of the row are not part of it.              *)
AuditPayload(p, row) ==
    [p EXCEPT !.state = row.state, !.persisted = row.decision,
              !.received = row.received, !.fetched = NoTime,
              !.discovered = row.discovered, !.country = "none",
              !.confirmed = p.source \in ManualSources \union {"ad_hoc"}
                            \/ row.manual]
Again(p, row, now) == OwnerDecision(AuditPayload(p, row), now)
TimeAgain(p, row, now) == FreshnessTime(AuditPayload(p, row), now, FALSE)
VisibleAgain(p, row, decision, now) ==
    OwnerVisible(AuditPayload(p, row), decision, TimeAgain(p, row, now), now)
AgedOut(p, row, now) == Tier(Age(TimeAgain(p, row, now), now)) = "HISTORICAL"

(* run_audit with execute, by the new decision.                            *)
ForReview == {"OWNER_REVIEW", "SECONDARY_REVIEW", "QUARANTINE"}

(* Mutant: proposals for review change the decision only.                  *)
SettledLeavingReviews(row, decision, shown) ==
    IF decision = "ACCEPT" /\ shown
    THEN [row EXCEPT !.eligible = TRUE, !.archived = FALSE]
    ELSE [row EXCEPT !.decision = decision]

Settled(row, decision, shown) ==
    CASE decision = "ACCEPT" /\ shown ->
           [row EXCEPT !.eligible = TRUE, !.archived = FALSE,
                       !.decision = "ACCEPT",
                       !.state = IF @ \in {"REJECTED", "CLOSED"}
                                 THEN "NORMALIZED" ELSE @]
      [] decision \in ForReview ->
           [row EXCEPT !.eligible = FALSE, !.decision = decision,
                       !.state = "SECONDARY_REVIEW"]
      [] decision \in {"HISTORICAL", "REJECT"} ->
           [row EXCEPT !.eligible = FALSE, !.archived = TRUE,
                       !.decision = decision,
                       !.state = IF decision = "REJECT" THEN "REJECTED"
                                                        ELSE "CLOSED"]
      [] OTHER -> row
SettledNow(p, row, decision, now) ==
    Settled(row, decision,
            VisibleAgain(p, row, decision, now) /\ ~AgedOut(p, row, now))
-----------------------------------------------------------------------------
(* ingest_job for what a connector or an alert found.                      *)
Ingest ==
    /\ job = NoRow
    /\ posting' \in Offers
    /\ job' = Scored(posting', RowOf(posting', today), today)
    /\ UNCHANGED <<today, audited>>

(* confirm_opportunity of a form, when the job is new: it is committed     *)
(* before it is tracked, and the request may die in between.               *)
ConfirmNew ==
    /\ job = NoRow
    /\ posting' \in Opportunities
    /\ \E marked \in BOOLEAN :
         job' = [Scored(posting', RowOf(posting', today), today)
                   EXCEPT !.tracked = marked]
    /\ UNCHANGED <<today, audited>>

(* workflow_import_url for an address not known yet: nothing tracks it.    *)
ImportUrl ==
    /\ job = NoRow
    /\ posting' \in Imports
    /\ job' = Scored(posting', RowOf(posting', today), today)
    /\ UNCHANGED <<today, audited>>

Day ==
    /\ today < MaxDay
    /\ today' = today + 1 /\ audited' = FALSE
    /\ UNCHANGED <<posting, job>>

(* An approval action or a lifecycle message.                              *)
Progress ==
    /\ job # NoRow
    /\ \E s \in {"SHORTLISTED", "SUBMITTED", "REJECTED", "CLOSED"}
               \ {job.state} :
         job' = [job EXCEPT !.state = s]
    /\ audited' = FALSE
    /\ UNCHANGED <<posting, today>>

(* set_manual_status to a protected status.                                *)
SetManualStatus ==
    /\ job # NoRow
    /\ job' = [job EXCEPT !.tracked = TRUE]
    /\ audited' = FALSE
    /\ UNCHANGED <<posting, today>>

(* confirm_opportunity for a job that is already there.                    *)
Confirm ==
    /\ job # NoRow
    /\ job' = Scored(posting, [job EXCEPT !.tracked = TRUE, !.manual = TRUE],
                     today)
    /\ audited' = FALSE
    /\ UNCHANGED <<posting, today>>

Rescore ==
    /\ job # NoRow
    /\ UNCHANGED <<posting, today, audited>>
    /\ job' = Scored(posting, job, today)

(* score-all passes over the jobs that have moved on.                      *)
ScoreAll ==
    /\ job # NoRow /\ job.state \in {"INGESTED", "NORMALIZED"}
    /\ job' = Scored(posting, job, today)
    /\ UNCHANGED <<posting, today, audited>>

Audit ==
    /\ job # NoRow
    /\ job' = SettledNow(posting, job, Again(posting, job, today), today)
    /\ audited' = TRUE
    /\ UNCHANGED <<posting, today>>

(* workflow01_state_reconcile with execute: one transaction, undone unless *)
(* nothing but the state has changed.                                      *)
Stale(row) ==
    /\ row.eligible /\ row.decision = "ACCEPT"
    /\ row.state \in {"REJECTED", "CLOSED"} \ ProtectedStates
Reconciled(row) == [row EXCEPT !.state = "NORMALIZED"]
Reconcile ==
    /\ job # NoRow /\ Stale(job)
    /\ ~Stale(Reconciled(job)) /\ Reconciled(job).eligible
    /\ job' = Reconciled(job)
    /\ UNCHANGED <<posting, today, audited>>

FreshNext == \/ Ingest \/ ConfirmNew \/ ImportUrl \/ ScoreAll \/ Day \/ Progress \/ SetManualStatus
             \/ Confirm \/ Rescore \/ Audit \/ Reconcile
FreshSpec == FreshInit /\ [][FreshNext]_freshVars
-----------------------------------------------------------------------------
(* A job on the list is one the gate would accept and show now, however    *)
(* days, tracking, rescoring and audits have followed each other           *)
(* (evaluate_owner_decision's docstring, job_eligibility.py:798).  Not so  *)
(* for a job its country code vouched for, which the audit's payload       *)
(* lacks, and one that its tracking alone keeps on the list.               *)
ListedIsAccepted ==
    job # NoRow /\ Listed(job, today) =>
      \/ /\ Again(posting, job, today) = "ACCEPT"
         /\ VisibleAgain(posting, job, "ACCEPT", today)
      \/ posting.country # "none"
      \/ job.tracked /\ ~job.manual

(* After an audit eligibility is what the gate says, until a day passes or *)
(* the job moves on (the parity of audit_fresh_jobs.py:291); but rows that *)
(* are protected from ageing are left as they were.                        *)
AuditSettlesEligibility ==
    audited =>
      \/ /\ job.eligible <=> (Again(posting, job, today) = "ACCEPT")
         /\ job.eligible => job.decision = "ACCEPT" /\ ~Stale(job)
      \/ /\ IsProtected(AuditPayload(posting, job))
         /\ AgedOut(posting, job, today)
=============================================================================
