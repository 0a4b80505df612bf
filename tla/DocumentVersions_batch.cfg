\* Two requests over two jobs, batches included, to completion.
CONSTANTS
    j1 = j1  j2 = j2  r1 = r1  r2 = r2  r3 = r3  r4 = r4  s1 = s1  s2 = s2
    Jobs = {j1, j2}
    Requests = {r1, r2}
    Stamps = {s1}
    Kinds = {"batch", "submit"}
    Workers = {2}
SPECIFICATION FairSpec
PROPERTIES ImplementsArchive EveryRequestEnds
CHECK_DEADLOCK FALSE
