\* A board lists a posting that is too long for its column, another follows.
CONSTANTS
    alert = alert  unclear = unclear  interview = interview  again = again  long = long
    b1 = b1  b2 = b2  b3 = b3  r1 = r1  r2 = r2  r3 = r3
    a1 = a1  a2 = a2  t1 = t1  t2 = t2  own = own  fix = fix  big = big
    Postings = {a1, a2, t1, t2, own, fix, big}
    Confirmed = {own}
    FixtureData = {}
    Unstorable = {big}
    UnstorableMail = {}
    Position <- MCPosition
    Url <- MCUrl
    Company <- MCCompany
    Verdict <- MCVerdict
    Kind <- MCKind
    Thread <- MCThread
    About <- MCAbout
    Digest <- MCDigest
    Correction <- MCCorrection
    Mailbox <- MCMailbox
    Boards <- MCThreeBoards
    Opportunity = own
    FetchLimit = 3
    Requests = {r1, r2, r3}
    May <- MCMay
    Workers = {1}
    MaxCrashes <- MCNoCrashes
    MaxParser = 2
SPECIFICATION Spec
INVARIANT BoardsContinue
CHECK_DEADLOCK FALSE
