SPECIFICATION FairSpec
CONSTANTS
    Publishers = {p1, p2}
    BundleSize = 2
    Absent = Absent
    Old = Old
    Foreign = Foreign
INVARIANTS
    TypeOK
    ToldTheTruth
    NoTemporary
PROPERTIES
    Ends
    Implements
