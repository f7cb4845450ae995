SPECIFICATION Spec
CONSTANTS
    Invocations = {i1, i2}
    Images = {m1}
    Versions = {v1, v2}
    MaxEdits = 1
    Options <- MCOptions
    Nobody = Nobody
    Unknown = Unknown
INVARIANTS
    TestFailureKept
