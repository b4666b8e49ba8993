\* The store: one tab, one call at a time, two files, two contents.  The views: two
\* that come and go; a signal missed is made up for by the next.
SPECIFICATION PageSpec
CONSTANTS
    Tabs = {t1}
    Calls = {c1}
    Names = {a, b}
    Vals = {v1, v2}
    Absent = Absent
    Empty = Empty
    None = None
    Overlap = FALSE
    Faults = {"trap", "reload", "clear"}
    Views = {files, inspector}
    MaxMoves = 2
    MaxReads = 2
INVARIANTS
    TypeOK
    DigestMeansDurable
    CutShortLeavesOldOrNew
    WatchersTypeOK
PROPERTIES
    ImplementsDurableStore
    ViewsCatchUp
