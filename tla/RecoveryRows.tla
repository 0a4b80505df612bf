----------------------------- MODULE RecoveryRows -----------------------------
(***************************************************************************)
(* Which rows of the damaged owner database go into the candidate: their   *)
(* classes (services/legacy_data_inventory.py,                             *)
(* services/recovery_row_classification.py), the jobs that the gate lets   *)
(* in again (scripts/phase3_reconstruct_jobs.py) and the selection of the  *)
(* import (scripts/phase3_build_candidate.py).                             *)
(***************************************************************************)
EXTENDS Inputs

CONSTANTS
    Jobs,           \* ids; an application has the id of its job
    CompanyIds,
    JobKinds        \* [signs, tag]: evidence, data_provenance

(* The scripts tell two values of data_provenance from all others.         *)
ASSUME KindsOfRowsAssumption ==
    \A kind \in JobKinds :
      /\ kind = [signs |-> kind.signs, tag |-> kind.tag]
      /\ kind.tag \in {"live", "TEST", "FIXTURE"}

Dropped == {"EXCLUDE", "TEST", "FIXTURE"}
NoParent == 0

(* classify_job, for a job with evidence or a tag of a test.               *)
Legacy(kind) ==
    CASE "fixture" \in kind.signs -> "FIXTURE"
      [] "test" \in kind.signs \ {"fixture"} -> "TEST"
      [] kind.signs \intersect {"fixture", "test"} = {} ->
           IF "bad_mail" \in kind.signs THEN "EXCLUDE"
           ELSE IF kind.tag = "live" THEN "none" ELSE kind.tag

TestTags == {"TEST", "FIXTURE"}
JobTag(kind) ==
    IF kind.tag = "live" /\ Legacy(kind) \in TestTags THEN Legacy(kind)
                                                     ELSE kind.tag

OwnEvidence(signs, applied) ==
    IF applied \/ "manual" \in signs THEN "OWNER"
    ELSE IF signs \intersect {"alert", "connector"} # {} THEN "LIVE"
    ELSE "AMBIGUOUS"

(* classify_job_row: synthetic names, boards taken in by the flood and     *)
(* digests come before any evidence of the owner's.                        *)
JobClass(kind, applied) ==
    IF Legacy(kind) # "none" THEN Legacy(kind)
    ELSE IF "pg_test" \in kind.signs THEN "EXCLUDE"
    ELSE IF "example" \in kind.signs THEN "FIXTURE"
    ELSE IF "e2e_name" \in kind.signs THEN "TEST"
    ELSE IF {"gitlab", "connector"} \subseteq kind.signs
            \/ "digest" \in kind.signs THEN "EXCLUDE"
    ELSE OwnEvidence(kind.signs, applied)

(* A damaged database: jobs with their kinds and companies, which of them  *)
(* have applications, and which the gate lets in.                          *)
Class(d, j) == JobClass(d.kind[j], j \in d.applied)
JobsOf(d, company) == {j \in Jobs : d.company[j] = company}

(* classify_company and classify_application go by the tags of the jobs,   *)
(* and propose no tag where there is one.                                  *)
CompanyTag(d, company) ==
    LET tags == {d.kind[j].tag : j \in JobsOf(d, company)}
    IN IF tags = {} \/ "live" \in tags \/ d.companyTag[company] # "live"
       THEN d.companyTag[company]
       ELSE IF "TEST" \in tags THEN "TEST" ELSE "FIXTURE"
ApplicationTag(d, j) ==
    IF d.applicationTag[j] # "live" THEN d.applicationTag[j]
                                    ELSE d.kind[j].tag

(* build_inventory makes its proposals for all tables before               *)
(* apply_provenance_backfill writes one, so those for companies and        *)
(* applications go by the tags that the jobs have before the run.          *)
Inventory(d) ==
    [jobs |-> [j \in Jobs |-> JobTag(d.kind[j])],
     companies |-> [c \in DOMAIN d.companyTag |-> CompanyTag(d, c)],
     applications |-> [j \in Jobs |-> ApplicationTag(d, j)]]
Backfilled(d) ==
    LET tags == Inventory(d)
    IN [d EXCEPT !.kind = [j \in Jobs |-> [@[j] EXCEPT !.tag = tags.jobs[j]]],
                 !.companyTag = tags.companies,
                 !.applicationTag = tags.applications]

CompanyClass(d, company) ==
    LET classes == {Class(d, j) : j \in JobsOf(d, company)}
    IN IF classes = {}
       THEN IF d.companyTag[company] = "live" THEN "AMBIGUOUS"
                                              ELSE d.companyTag[company]
       ELSE IF \A j \in JobsOf(d, company) : d.kind[j].tag # "live" THEN "TEST"
       ELSE IF classes = {"OWNER"} THEN "OWNER"
       ELSE IF "LIVE" \in classes THEN "LIVE"
       ELSE IF classes \subseteq Dropped THEN "EXCLUDE" ELSE "AMBIGUOUS"

(* Applications in build_recovery_classification.                          *)
ApplicationClass(d, j) ==
    CASE Class(d, j) \in Dropped -> "EXCLUDE"
      [] Class(d, j) = "OWNER" -> "OWNER"
      [] OTHER -> IF ApplicationTag(d, j) = "live" THEN "AMBIGUOUS"
                  ELSE ApplicationTag(d, j)

(* _parent_class, of a row with a job or an application or neither.        *)
ParentClass(d, row) ==
    IF row.job # NoParent THEN Class(d, row.job)
    ELSE IF row.application # NoParent THEN Class(d, row.application)
    ELSE "OWNER"
-----------------------------------------------------------------------------
(* The selection of the import.                                            *)
KeptJobs(d) ==
    {j \in Jobs : \/ Class(d, j) = "OWNER"
                  \/ Class(d, j) = "LIVE" /\ j \in d.eligible}
KeptCompanies(d) ==
    {d.company[j] : j \in {j \in KeptJobs(d) :
       CompanyClass(d, d.company[j]) \in {"OWNER", "LIVE"}}}
KeptApplications(d) ==
    {j \in d.applied \intersect KeptJobs(d) : ApplicationClass(d, j) = "OWNER"}

(* Mutant: only the job of a row is looked at.                             *)
JobKept(d, row) == row.job \in KeptJobs(d) \union {NoParent}
ParentsKept(d, row) ==
    /\ row.job \in KeptJobs(d) \union {NoParent}
    /\ row.application \in KeptApplications(d) \union {NoParent}

KeptSignal(d, row) ==
    /\ row.job = NoParent \/ Class(d, row.job) \in {"OWNER", "LIVE"}
    /\ ParentsKept(d, row)
KeptLedger(d, row) ==
    /\ KeptApplications(d) # {}
    /\ ParentClass(d, row) = "OWNER" /\ ParentsKept(d, row)
(* AI usage and interview packs.                                           *)
KeptUsage(d, row) ==
    /\ row.job = NoParent \/ Class(d, row.job) \notin Dropped
    /\ row.job \in KeptJobs(d) \union {NoParent}
KeptPack(d, row) ==
    /\ row.job \in KeptJobs(d) /\ Class(d, row.job) = "OWNER"
(* Document versions, timeline and approvals, whatever their class.        *)
KeptChild(d, row) == row.application \in KeptApplications(d)
-----------------------------------------------------------------------------
AskRecovery ==
    \E applied, eligible \in SUBSET Jobs, kind \in [Jobs -> JobKinds],
       company \in [Jobs -> CompanyIds] :
      Given("recovery", [applied |-> applied, eligible |-> eligible,
                         kind |-> kind, company |-> company,
                         companyTag |-> [c \in CompanyIds |-> "live"],
                         applicationTag |-> [j \in Jobs |-> "live"]])
RecoverySpec == input = NoInput /\ [][AskRecovery]_input

(* Whatever rows point to each other, an imported one finds its job and    *)
(* its application imported; its job's company too, unless that has jobs   *)
(* of other classes than the owner's and is left out as ambiguous.  And no *)
(* application is lost unless its job was taken for a test, a fixture or   *)
(* excluded (phase3_build_candidate.py:123-190; an insert without its      *)
(* parent fails the whole import).  Tagging the rows of tests before       *)
(* (inventory_legacy_data.py) changes nothing that is imported, and a      *)
(* third run tags nothing: companies and applications take two.            *)
RecoveredRowsHaveParents ==
    Is("recovery") =>
      LET d == Asked
          none == {NoParent}
      IN /\ \A job \in Jobs \union none, application \in d.applied \union none :
              LET row == [job |-> job, application |-> application]
                  linked == KeptSignal(d, row) \/ KeptLedger(d, row)
              IN /\ linked \/ KeptUsage(d, row) \/ KeptPack(d, row)
                      => job \in KeptJobs(d) \union none
                 /\ linked \/ KeptChild(d, row)
                      => application \in KeptApplications(d) \union none
         /\ \A j \in KeptJobs(d) :
              \/ d.company[j] \in KeptCompanies(d)
              \/ CompanyClass(d, d.company[j]) = "AMBIGUOUS"
         /\ KeptApplications(d) \subseteq KeptJobs(d)
         /\ \A j \in d.applied :
              j \in KeptApplications(d) \/ Class(d, j) \in Dropped
         /\ \A tagged \in {Backfilled(d), Backfilled(Backfilled(d))} :
              /\ KeptJobs(tagged) = KeptJobs(d)
              /\ KeptCompanies(tagged) = KeptCompanies(d)
              /\ KeptApplications(tagged) = KeptApplications(d)
         /\ LET settled == Backfilled(Backfilled(d))
            IN Backfilled(settled) = settled
=============================================================================
