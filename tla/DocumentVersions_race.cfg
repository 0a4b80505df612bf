\* Three requests for one application, one at a time or racing.
CONSTANTS
    j1 = j1  j2 = j2  r1 = r1  r2 = r2  r3 = r3  r4 = r4  s1 = s1  s2 = s2
    Jobs = {j1}
    Requests = {r1, r2, r3}
    Stamps = {s1, s2}
    Kinds = {"generate", "submit"}
    Workers = {1, 3}
SPECIFICATION Spec
INVARIANTS OneRowPerNumber DenseNumbers SubmittedIsFrozen NeverSwapped CopiesIntactWhenSerial
SYMMETRY Symmetry
CHECK_DEADLOCK FALSE
