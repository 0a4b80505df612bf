------------------------------ MODULE JobIntake ------------------------------
(***************************************************************************)
(* ingest_job_with_decision (services/ingestion.py) as operators on the    *)
(* jobs table: which row a posting meets, what is decided of it, and the   *)
(* row that is written.                                                    *)
(***************************************************************************)
EXTENDS Naturals, FiniteSets

CONSTANTS
    Postings,       \* postings; each is its own (source, external_id)
    Position,       \* posting -> dedupe_key (company, title and location)
    Url,            \* posting -> canonical_url
    Company,        \* posting -> normalized company name
    Verdict,        \* posting -> decision of the eligibility gate
    Confirmed,      \* postings the owner has confirmed
    FixtureData,    \* postings of provenance fixture or test
    Unstorable      \* postings with a text the database refuses: one longer
                    \* than its column, or with a NUL
                    \* (models.py:153-162), which the database refuses

Decisions == {"ACCEPT", "SECONDARY_REVIEW", "OWNER_REVIEW", "QUARANTINE",
              "HISTORICAL", "REJECT", "DUPLICATE"}

ASSUME PostingAssumption ==
    /\ DOMAIN Position = Postings /\ DOMAIN Url = Postings
    /\ DOMAIN Company = Postings
    /\ Verdict \in [Postings -> Decisions \ {"DUPLICATE"}]
    /\ Confirmed \subseteq Postings /\ FixtureData \subseteq Postings
    /\ Unstorable \subseteq Postings

(* Workflow states that intake writes.                                     *)
IntakeStates == {"NORMALIZED", "SECONDARY_REVIEW", "CLOSED", "REJECTED",
                 "INTERVIEW_SIGNAL", "OFFER", "REJECTED_BY_EMPLOYER"}
JobRow == [decision : Decisions, state : IntakeStates, eligible : BOOLEAN,
           manual : BOOLEAN]
NoJob == [decision |-> "none"]

NoUrl == "NONE"

Stored(jobs) == {p \in Postings : jobs[p] # NoJob}

(* Rows found by dedupe_key and by canonical_url.                          *)
SamePosition(jobs, p) == {q \in Stored(jobs) : Position[q] = Position[p]}
SameUrl(jobs, p) ==
    {q \in Stored(jobs) : Url[q] = Url[p] /\ Url[p] # NoUrl}

(* Both are fetched with one_or_none, which raises on a second row.        *)
Ambiguous(jobs, p) ==
    \/ Cardinality(SameUrl(jobs, p)) > 1
    \/ Cardinality(SamePosition(jobs, p)) > 1

(* Mutant: a retitled posting passes with the gate's own decision.         *)
DecisionIgnoringUrl(jobs, p) ==
    IF p \in FixtureData THEN "ACCEPT" ELSE Verdict[p]

(* Another position under a known URL is stored as a duplicate.            *)
DecisionOf(jobs, p) ==
    IF SameUrl(jobs, p) # {} THEN "DUPLICATE"
    ELSE IF p \in FixtureData THEN "ACCEPT" ELSE Verdict[p]

(* Mutant: an owner review is a state of its own.                          *)
StateNamedByDecision(decision) ==
    IF decision = "ACCEPT" THEN "NORMALIZED" ELSE decision

(* _decision_to_state                                                      *)
StateFor(decision) ==
    CASE decision = "ACCEPT" -> "NORMALIZED"
      [] decision \in {"SECONDARY_REVIEW", "QUARANTINE", "OWNER_REVIEW",
                       "DUPLICATE"} -> "SECONDARY_REVIEW"
      [] decision = "HISTORICAL" -> "CLOSED"
      [] decision = "REJECT" -> "REJECTED"

(* eligible_for_owner                                                      *)
EligibleForOwner(p, decision) ==
    /\ p \notin FixtureData
    /\ \/ decision = "ACCEPT"
       \/ p \in Confirmed /\ decision \notin {"REJECT", "DUPLICATE"}

NewJob(p, decision) ==
    [decision |-> decision, state |-> StateFor(decision),
     eligible |-> EligibleForOwner(p, decision), manual |-> FALSE]
=============================================================================
