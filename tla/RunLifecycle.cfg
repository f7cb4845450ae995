SPECIFICATION Spec
CONSTANTS
    Invocations = {i1, i2}
    Images = {m1, m2}
    Versions = {v1, v2}
    MaxEdits = 2
    Options <- MCOptions
    Nobody = Nobody
    Unknown = Unknown
SYMMETRY Symmetry
INVARIANTS
    TypeOK
    RunsKeptApart
    EvidenceComplete
    ReportsCurrent
    StatusTold
