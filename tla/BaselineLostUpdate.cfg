SPECIFICATION Spec
CONSTANTS
    Null = Null
    Damaged = Damaged
    Updates = {u1, u2}
    Checks = {k1}
    root = root
    tip = tip
    Commits <- MCCommits
    Ancestors <- MCAncestors
    Evidence <- MCEvidence
    Tolerance = 1000
    MaxTrouble = 0
INVARIANTS
    ReplacesWhatItShowed
