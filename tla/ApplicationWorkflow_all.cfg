\* Two postings of one position, with one death of the process: four requests one at a
\* time, or three that race.
CONSTANTS
    a = a  b = b  c = c  r1 = r1  r2 = r2  r3 = r3  r4 = r4
    NoKey = NoKey
    Never = Never
    Jobs = {a, b}
    Company <- MCCompany
    Url <- MCUrl
    AtsId <- MCAtsId
    Requisition <- MCRequisition
    Role <- MCRole
    OverrideTtlDays = 0
    SpacingDays = 0
    CautionDays = 1
    MaxActive = 1
    Requests = {r1, r2, r3, r4}
    Kinds = {"generate", "mark_submitted", "withdrawn"}
    Events <- MCEvents
    Workers = {1, 3}
    MaxServed <- MCMaxServed
    MaxCrashes = 1
    MaxDay = 1
SPECIFICATION Spec
INVARIANTS NoDoubleSubmissionWhenSerial LedgerFollowsWhenSerial NoInventedSubmission
PROPERTY BlockedUntilOverride
SYMMETRY Symmetry
CHECK_DEADLOCK FALSE
