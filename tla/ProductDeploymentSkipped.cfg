CONSTANTS
    v1 = v1
    v2 = v2
    pa = pa
    pb = pb
    Names = {pa, pb}
    Versions = {v1, v2}
    Values = {a, b}
    Unusable = Unusable
    None = None
    Products <- KeptPipelines
    MaxGen = 1
    MaxEdits = 1
    MaxFaults = 1
SPECIFICATION Spec
INVARIANT SkippedOnlyIfUnchanged
