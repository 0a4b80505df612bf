---------------------------- MODULE DuplicateRisk ----------------------------
(***************************************************************************)
(* services/duplicate_risk.py: how a job is compared with the application  *)
(* ledger.  A ledger row copies the identity of its job when it is         *)
(* created, so rows name the job and the identity is looked up.            *)
(***************************************************************************)
EXTENDS Naturals, FiniteSets

CONSTANTS
    Jobs,
    Company,        \* company a job is linked to
    Url,            \* canonical application URL
    AtsId,          \* ATS job id, or NoKey
    Requisition,    \* employer requisition id, or NoKey
    Role,           \* title and description fingerprint, or NoKey
    NoKey,
    Never,          \* the null date
    OverrideTtlDays, SpacingDays, CautionDays, MaxActive

ASSUME IdentityAssumption ==
    /\ Company \in [Jobs -> Nat]
    /\ Never \notin Nat
    /\ {OverrideTtlDays, SpacingDays, CautionDays, MaxActive} \subseteq Nat

ApplicationStates ==
    {"PACKET_READY", "APPROVED_FOR_SUBMISSION", "NEEDS_EDIT",
     "SECONDARY_REVIEW", "REJECTED", "SUBMITTED", "CLOSED"}

ActiveStatuses ==
    {"PACKET_READY", "NEEDS_EDIT", "APPROVED_FOR_SUBMISSION", "SUBMITTED"}

SameKey(key, j, k) == key[j] # NoKey /\ key[j] = key[k]
SameCompany(j, k) == Company[j] = Company[k]

(* URL and ATS id identify a posting everywhere; a requisition and a role  *)
(* with its description only within one company.                           *)
Exact(j, k) ==
    \/ SameKey(Url, j, k)
    \/ SameKey(AtsId, j, k)
    \/ SameCompany(j, k) /\ SameKey(Requisition, j, k)
    \/ SameCompany(j, k) /\ SameKey(Role, j, k)

Others(j, ledger) == {row \in ledger : row.job # j}
AtCompany(j, ledger) == {row \in Others(j, ledger) : SameCompany(j, row.job)}

Within(days, date, today) == date # Never /\ today - date <= days

(* Mutant: only live applications count as exact matches.                  *)
LiveExactMatches(j, ledger) ==
    {row \in Others(j, ledger) : Exact(j, row.job) /\ row.status \in ActiveStatuses}

ExactMatches(j, ledger) == {row \in Others(j, ledger) : Exact(j, row.job)}

Cautious(j, ledger, today) ==
    LET rows == AtCompany(j, ledger) IN
    \/ Cardinality({row \in rows : row.status \in ActiveStatuses}) >= MaxActive
    \/ \E row \in rows : Within(SpacingDays, row.submitted, today)
    \/ \E row \in rows : Within(CautionDays, row.submitted, today)

(* evaluate_duplicate_risk: a live override wins, then exact matches, then *)
(* the cadence rules of the company.                                       *)
Level(j, ledger, override, today) ==
    IF Within(OverrideTtlDays, override, today) THEN "GREEN"
    ELSE IF ExactMatches(j, ledger) # {} THEN "RED"
    ELSE IF Cautious(j, ledger, today) THEN "AMBER"
    ELSE "GREEN"
=============================================================================
