\* Every kind of request, one at a time or racing, with restarts.
CONSTANTS
    i1 = i1  i2 = i2  i3 = i3  o1 = o1  r1 = r1  r2 = r2  r3 = r3  r4 = r4
    Ids = {i1, i2}
    Overrides = {Default, o1}
    Default = Default
    Nobody = Nobody
    Requests = {r1, r2, r3}
    Kinds = {"draft", "activate", "restore", "preview"}
    Workers = {1, 3}
SPECIFICATION FairSpec
INVARIANTS ConsistentWhenSerial OnlyActivatedInUse PreviewJudgesItsCandidate
PROPERTIES OnePolicyWhenSerial EveryRequestEnds
CHECK_DEADLOCK FALSE
