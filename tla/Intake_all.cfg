\* Up to three requests at a time over four messages and two boards; one
\* request at a time with a crash.
CONSTANTS
    alert = alert  unclear = unclear  interview = interview  again = again  long = long
    b1 = b1  b2 = b2  b3 = b3  r1 = r1  r2 = r2  r3 = r3
    a1 = a1  a2 = a2  t1 = t1  t2 = t2  own = own  fix = fix  big = big
    Postings = {a1, a2, t1, t2, own, fix, big}
    Unstorable = {big}
    UnstorableMail = {unclear, long}
    Confirmed = {own}
    FixtureData = {}
    Position <- MCPosition
    Url <- MCUrl
    Company <- MCCompany
    Verdict <- MCVerdict
    Kind <- MCKind
    Thread <- MCThread
    About <- MCAbout
    Digest <- MCDigest
    Correction <- MCCorrection
    Mailbox <- MCLongMailbox
    Boards <- MCThreeBoards
    Opportunity = own
    FetchLimit = 3
    Requests = {r1, r2, r3}
    May <- MCMay
    Workers = {1, 2, 3}
    MaxCrashes <- MCMaxCrashes
    MaxParser = 2
SPECIFICATION Spec
INVARIANTS IntakeTypeOK NothingForgotten NothingTwice OneEligibleJobWhenSerial BoardsIsolatedWhenSerial ApprovedHasJob
PROPERTIES RequestsEnd ImplementsLedger
CHECK_DEADLOCK FALSE
