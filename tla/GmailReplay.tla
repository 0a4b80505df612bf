----------------------------- MODULE GmailReplay -----------------------------
(***************************************************************************)
(* Rows of processed_gmail_messages and what they say of a message         *)
(* (services/gmail_replay.py): may the fetch leave it out, must it be      *)
(* processed again, what is recorded when processing ends.                 *)
(***************************************************************************)
EXTENDS Naturals

AlertTypes == {"JOB_ALERT"}                       \* JOB_ALERT_TYPES
LifecycleTypes == {"RECRUITER_OUTREACH", "APPLICATION_CONFIRMATION",
                   "ASSESSMENT", "INTERVIEW", "REJECTION", "OFFER",
                   "FOLLOW_UP", "UNRELATED"}      \* NON_JOB_LIFECYCLE_TYPES
NoType == "NONE"                                  \* a column that is NULL
Statuses == {"LEGACY", "COMPLETE", "REPLAY_REQUIRED", "FAILED"}

(* A row; parser 0 is NULL, made counts produced entities.                 *)
Row(Parsers, Counts) ==
    [status : Statuses, type : AlertTypes \union LifecycleTypes
                                \union {"QUARANTINE", NoType},
     parser : Parsers \union {0}, made : Counts, replay : BOOLEAN]
NoRow == [status |-> "none"]

(* A row as a claim inserts it: the column defaults.                       *)
ClaimedRow == [status |-> "LEGACY", type |-> NoType, parser |-> 0,
               made |-> 0, replay |-> FALSE]

(* Mutant: a job found for a message counts as the message's output, as    *)
(* the query on raw_payload means to.                                      *)
JobsCountAsOutput(signal, linked, anyJob) == ~(signal \/ anyJob)

(* A row without an outcome needs replay unless the message has a signal   *)
(* that is not a job alert, or one with a job.  The search for jobs made   *)
(* from it compares a key of raw_payload that ingestion stores one level   *)
(* deeper, and finds none.                                                 *)
LegacyRowNeedsReplay(signal, linked, anyJob) == ~(signal /\ linked)

(* The fetch leaves the message out.                                       *)
ShouldSkipFetch(row, legacyNeeds) ==
    /\ row # NoRow
    /\ ~row.replay
    /\ row.status \in {"LEGACY", "COMPLETE"}
    /\ row.status = "LEGACY" => ~legacyNeeds
    /\ row.status = "COMPLETE" => \/ row.type \in LifecycleTypes
                                  \/ row.made > 0

(* Mutant: every row without an outcome is processed again.                *)
ReplayLegacy(row, legacyNeeds, current) ==
    row.replay \/ row.status \in {"REPLAY_REQUIRED", "LEGACY"}

(* Processing does not stop at a claim of the message.                     *)
ShouldReplayRow(row, legacyNeeds, current) ==
    \/ row.replay
    \/ row.status = "REPLAY_REQUIRED"
    \/ row.parser \notin {0, current} /\ row.type \in AlertTypes
    \/ row.status = "LEGACY" /\ legacyNeeds
    \/ row.status = "COMPLETE" /\ row.type \in AlertTypes /\ row.made = 0

(* record_processing_outcome: the whole row is written.                    *)
Failed(current) == [status |-> "FAILED", type |-> "QUARANTINE",
                    parser |-> current, made |-> 0, replay |-> TRUE]
(* Mutant: the outcome of an alert is recorded without its count.          *)
OutcomeUncounted(n, current) ==
    [status |-> "REPLAY_REQUIRED", type |-> "JOB_ALERT", parser |-> current,
     made |-> 0, replay |-> TRUE]

AlertOutcome(n, current) ==
    [status |-> IF n = 0 THEN "REPLAY_REQUIRED" ELSE "COMPLETE",
     type |-> "JOB_ALERT", parser |-> current, made |-> n, replay |-> n = 0]
SignalOutcome(type, current) ==
    [status |-> "COMPLETE", type |-> type, parser |-> current, made |-> 1,
     replay |-> FALSE]

(* backfill_legacy_rows on a row that needs replay; OldParser is the       *)
(* version it writes into rows that have none.                             *)
Backfilled(row, OldParser) ==
    [row EXCEPT !.status = "REPLAY_REQUIRED", !.replay = TRUE,
                !.parser = IF @ = 0 THEN OldParser ELSE @,
                !.type = IF @ = NoType THEN "JOB_ALERT" ELSE @]

=============================================================================
