\* An override given for other reasons excuses a later duplicate.
CONSTANTS
    a = a  b = b  c = c  r1 = r1  r2 = r2  r3 = r3  r4 = r4
    NoKey = NoKey
    Never = Never
    Jobs = {a, b, c}
    Company <- MCCompany
    Url <- MCUrl
    AtsId <- MCAtsId
    Requisition <- MCRequisition
    Role <- MCRole
    OverrideTtlDays = 0
    SpacingDays = 0
    CautionDays = 1
    MaxActive = 1
    Requests = {r1, r2, r3, r4}
    Kinds = {"generate", "mark_submitted"}
    Events <- MCOverrides
    Workers = {1}
    MaxServed <- MCMaxServed
    MaxCrashes = 0
    MaxDay = 0
SPECIFICATION Spec
INVARIANT OverrideKnewMatch
CHECK_DEADLOCK FALSE
