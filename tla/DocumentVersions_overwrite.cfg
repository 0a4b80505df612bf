\* A regeneration racing others overwrites a submitted document.
CONSTANTS
    j1 = j1  j2 = j2  r1 = r1  r2 = r2  r3 = r3  r4 = r4  s1 = s1  s2 = s2
    Jobs = {j1}
    Requests = {r1, r2, r3, r4}
    Stamps = {s1}
    Kinds = {"generate", "submit"}
    Workers = {4}
SPECIFICATION Spec
INVARIANT FrozenFilesIntact
SYMMETRY Symmetry
CHECK_DEADLOCK FALSE
