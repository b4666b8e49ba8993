SPECIFICATION Spec
CONSTANTS
    Procs = {p1, p2}
    Ids = {milk, tea}
    BadIds = {}
    Titles = {t1}
    Bodies = {b1, b2}
    NoBody = NoBody
    line = line
    Preview <- FirstLine
    None = None
    Torn = Torn
    Crashes = TRUE
INVARIANTS TypeOK DriftHasACause
PROPERTY RebuildRepairs
SYMMETRY Alike
