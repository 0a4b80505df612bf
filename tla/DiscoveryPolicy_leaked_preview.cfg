\* Two racing previews leave a candidate in use.
CONSTANTS
    i1 = i1  i2 = i2  i3 = i3  o1 = o1  r1 = r1  r2 = r2  r3 = r3  r4 = r4
    Ids = {i1}
    Overrides = {Default, o1}
    Default = Default
    Nobody = Nobody
    Requests = {r1, r2}
    Kinds = {"preview"}
    Workers = {2}
SPECIFICATION Spec
INVARIANT PreviewLeavesNoTrace
CHECK_DEADLOCK FALSE
