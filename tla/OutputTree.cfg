SPECIFICATION Spec
CONSTANTS
    Reports = {r1, r2}
    Layouts <- Meeting
    Cleans = {c1}
    Project = Project
    Mine = Mine
    None = None
SYMMETRY Symmetry
INVARIANTS
    TypeOK
    ManifestCommits
    ReportTold
    ExaminedOnly
PROPERTY UserFilesKept
