SPECIFICATION Spec
CONSTANTS
    Procs = {p1}
    Ids = {nul, tea}
    BadIds = {nul}
    Titles = {t1}
    Bodies = {b1, b2}
    NoBody = NoBody
    line = line
    Preview <- FirstLine
    None = None
    Torn = Torn
    Crashes = FALSE
PROPERTY RebuildRepairs
