\* Two racing activations leave two active versions.
CONSTANTS
    i1 = i1  i2 = i2  i3 = i3  o1 = o1  r1 = r1  r2 = r2  r3 = r3  r4 = r4
    Ids = {i1, i2}
    Overrides = {Default, o1}
    Default = Default
    Nobody = Nobody
    Requests = {r1, r2, r3, r4}
    Kinds = {"draft", "activate"}
    Workers = {4}
SPECIFICATION Spec
INVARIANT SingleActive
CHECK_DEADLOCK FALSE
